---- MODULE Spec2Model ----
(***************************************************************************)
(* Layer store of the layered image compositor (src/src/store/imageStore.ts)*)
(* together with the displacement compositor it calls                       *)
(* (utils/displacement.ts, kept in src/unnamed/part_010).                   *)
(*                                                                         *)
(* The store is a zustand store wrapped in the immer middleware:            *)
(*   set(recipe)  runs recipe on a draft of the state the store holds when  *)
(*                set is entered, and then replaces the store's state by    *)
(*                Object.assign({}, <state held now>, <result of recipe>);  *)
(*   get()        returns the state object the store holds at that moment.  *)
(* A recipe's result carries every key of the state, so a set() made from   *)
(* inside a running recipe is overwritten when the outer recipe commits.    *)
(* Each store method is modelled as a recipe (an operator from store state  *)
(* to store state) and an action that commits it with setState.             *)
(***************************************************************************)
EXTENDS Integers, Sequences, FiniteSets, TLC

VARIABLES
  images,             \* ImageStore.images: the layers, bottom to top
  selectedImage,      \* ImageStore.selectedImage: a layer value or Null
  dragState,          \* ImageStore.dragState
  displacementState,  \* ImageStore.displacementState
  isOverlapping,      \* ImageStore.isOverlapping
  handlers,           \* which overlap callbacks are registered
  fired,              \* callbacks invoked by the last overlap evaluation
  lastOp,             \* name of the store method that ran last
  lastApply,          \* rendering-resource account of the last applyDisplacement
  transform,          \* CanvasKitStore.transform: x, y, scale (exact fractions)
  isPanning,          \* CanvasKitStore.isPanning
  lastPanPosition,    \* CanvasKitStore.lastPanPosition
  panOrigin,          \* transform minus pointer when the running pan started
  dragRef,            \* SkiaCanvas: dragState.current (a React ref)
  pending,            \* SkiaCanvas: callbacks handed to requestAnimationFrame
  returned,           \* what the last query of the image store returned
  mounted,            \* the component whose handlers the canvas element has
  released,           \* Image handle -> number of delete() calls made on it
  closure,            \* SkiaCanvas: the images its unmount cleanup closes over
  imageDB,            \* ImageDBStore: the Image objects whose bytes IndexedDB holds
  projects,           \* per-project CanvasKitStore.projects: id -> Project or NoProject
  activeProjectId,    \* per-project CanvasKitStore.activeProjectId
  heap,               \* the transform objects the projects refer to
  instances,          \* canvasKitStore.ts: instances (canvasKit, surfaces, activeSurfaceId)
  canvasState,        \* canvasKitStore.ts: activeSurfaceId, isInitialized, error
  mockup,             \* useMockupStore: currentMockup, isLoading, error
  loads               \* the calls of loadMockupById and how far each has got

\* the image store and what is recorded about its last call
imageVars == <<images, selectedImage, dragState, displacementState, isOverlapping,
               handlers, fired, lastApply>>
\* the canvas store
canvasVars == <<transform, isPanning, lastPanPosition, panOrigin>>
\* the canvas component
componentVars == <<dragRef, pending, mounted, released, closure, imageDB>>
\* the rendering side of the canvas stores
engineVars == <<projects, activeProjectId, heap, instances, canvasState>>
\* the mockup store and its running loads
mockupVars == <<mockup, loads>>

vars == <<images, selectedImage, dragState, displacementState, isOverlapping,
          handlers, fired, lastOp, lastApply,
          transform, isPanning, lastPanPosition, panOrigin, dragRef, pending,
          returned, mounted, released, closure, imageDB,
          projects, activeProjectId, heap, instances, canvasState,
          mockup, loads>>

---------------------------------------------------------------------------
(* Bounds of the model *)

MaxLayers == 2     \* layers held between two calls
MaxOffset == 4     \* |transform.x|, |transform.y| stay within MaxOffset
MaxDenominator == 2   \* denominators of transform.x and transform.y
MaxScaleDenominator == 16  \* denominator of transform.scale
MaxCoord == 4      \* layer positions stay within 0..MaxCoord

---------------------------------------------------------------------------
(* Values *)

Null == [id |-> 0]          \* null selectedImage (selectedImage?.id is undefined)
NoId == 0                   \* null sourceId
NoImage == 0                \* null / undefined Image handle
Undefined == 0 - 1          \* a numeric field the layer object does not have

\* Decoded images handed to the store: handle 1 is 2x2, handle 2 is 4x4.
\* The snapshot of a surface sized to image h has handle 10 + h.
InputImages == {1, 2}
MaskImages == {1}
DisplacementMaps == {2}
Snapshots == {11}
BaseImage(h) == h % 10
\* Handles 3 (7x1) and 4 (10x1) have areas in the ratio 7 : 10.
Width(h) == CASE BaseImage(h) = 1 -> 2 [] BaseImage(h) = 3 -> 7
              [] BaseImage(h) = 4 -> 10 [] OTHER -> 4
Height(h) == CASE BaseImage(h) = 1 -> 2 [] BaseImage(h) = 3 -> 1
               [] BaseImage(h) = 4 -> 1 [] OTHER -> 4

\* pointer positions (clientX, clientY) and canvas bounding rects
Points == {<<0, 0>>}
DragPoints == {<<0, 0>>, <<4, 4>>}
Rects == {[left |-> 0, top |-> 0]}
\* arguments of updateImageContent
Updates == {[x |-> 0, y |-> 0]}
DragUpdates == {[blendMode |-> "Multiply"]}

InitDragState ==
  [isDragging |-> FALSE, startX |-> 0, startY |-> 0, offsetX |-> 0, offsetY |-> 0]

\* Numbers of the canvas transform are exact fractions <<numerator, denominator>>
\* in lowest terms with a positive denominator.
RECURSIVE GCD(_, _)
GCD(a, b) == IF b = 0 THEN a ELSE GCD(b, a % b)
Abs(i) == IF i < 0 THEN 0 - i ELSE i
Frac(n, d) ==
  LET g == GCD(Abs(n), Abs(d))
      sgn == IF d < 0 THEN 0 - 1 ELSE 1
  IN <<sgn * (n \div g), sgn * (d \div g)>>
FromInt(i) == <<i, 1>>
FracAdd(a, b) == Frac(a[1] * b[2] + b[1] * a[2], a[2] * b[2])
FracSub(a, b) == Frac(a[1] * b[2] - b[1] * a[2], a[2] * b[2])
FracMul(a, b) == Frac(a[1] * b[1], a[2] * b[2])
FracDiv(a, b) == Frac(a[1] * b[2], a[2] * b[1])
FracLess(a, b) == a[1] * b[2] < b[1] * a[2]
FracMax(a, b) == IF FracLess(a, b) THEN b ELSE a
FracMin(a, b) == IF FracLess(b, a) THEN b ELSE a

\* transform: { x: 0, y: 0, scale: 1 }
InitTransform == [x |-> FromInt(0), y |-> FromInt(0), scale |-> FromInt(1)]
InitPanPosition == [x |-> 0, y |-> 0]
NoPan == [active |-> FALSE]
\* dragState.current = null
NoDragRef == [isDragging |-> FALSE]

NoDisplacement == [sourceId |-> NoId, dispImage |-> NoImage, maskImage |-> NoImage]

\* What a call of the store's applyDisplacement did to rendering resources:
\* how it ended, whether the surface made by MakeSurface is still live, the
\* call of the compositor that threw, and the compositor's resources not deleted.
Account(outcome, tempSurfaceLive, threwAt, leaked) ==
  [outcome |-> outcome, tempSurfaceLive |-> tempSurfaceLive,
   threwAt |-> threwAt, leaked |-> leaked]

NoApply == Account("none", FALSE, "none", {})

\* no query was made by the last call
NoReturn == [of |-> "none"]

\* per-project store: the project ids callers use, the surface (canvas
\* element) ids, and the transform objects that can be live at once
ProjectIds == {"P", "Q"}
SurfaceIds == {"main", "mini"}
MaxObjects == 3
NoProject == [id |-> "none"]
NoProjectId == "none"
NoObject == [x |-> FromInt(0), y |-> FromInt(0), scale |-> FromInt(0)]
EmptyHeap == [o \in 1..MaxObjects |-> NoObject]

\* canvasKitStore.ts: the module-level instances object and the store's
\* initial state
NoSurfaceId == "none"
InitInstances ==
  [canvasKit |-> FALSE, surfaces |-> [s \in SurfaceIds |-> "none"],
   activeSurfaceId |-> NoSurfaceId]
InitCanvasState ==
  [activeSurfaceId |-> NoSurfaceId, isInitialized |-> FALSE, error |-> "null"]

\* mockup store: the ids loadMockupById is called with, those localStorage
\* has an entry for, and the calls that can be running at once
MockupIds == {"m1", "m2", "missing"}
StoredMockups == {"m1", "m2"}
MaxCalls == 2
MockupCalls == 1..MaxCalls
InitMockup == [currentMockup |-> "null", isLoading |-> FALSE, error |-> "null"]
NoLoad == [status |-> "idle", imageId |-> "none"]

\* the Image objects the model follows, none of them deleted
Handles == InputImages \cup MaskImages \cup DisplacementMaps \cup Snapshots
NoneReleased == [h \in Handles |-> 0]

---------------------------------------------------------------------------
(* zustand: get() and set() *)

\* get(): the state object held by the store
Store ==
  [images |-> images, selectedImage |-> selectedImage, dragState |-> dragState,
   displacementState |-> displacementState, isOverlapping |-> isOverlapping,
   handlers |-> handlers]

\* vanilla setState: state = Object.assign({}, state, nextState)
setState(cur, partial) ==
  [k \in DOMAIN cur |-> IF k \in DOMAIN partial THEN partial[k] ELSE cur[k]]

\* the store now holds s
Commit(s) ==
  /\ images' = s.images
  /\ selectedImage' = s.selectedImage
  /\ dragState' = s.dragState
  /\ displacementState' = s.displacementState
  /\ isOverlapping' = s.isOverlapping
  /\ handlers' = s.handlers

\* crypto.randomUUID(): an id that nothing the store holds refers to. Ids are
\* only ever compared for equality, so the least unused one stands for it.
Uuids == 1..(MaxLayers + 3)
UsedIds(s) ==
  {s.images[i].id : i \in 1..Len(s.images)}
    \cup {s.selectedImage.id, s.displacementState.sourceId}
randomUUID(s) ==
  CHOOSE id \in Uuids : id \notin UsedIds(s) /\ \A j \in Uuids : j < id => j \in UsedIds(s)

\* ids passed by callers: those of the layers held and one of no layer
Ids == 1..(MaxLayers + 1)

---------------------------------------------------------------------------
(* Sequence helpers: Array.prototype.find and the top-down for loops *)

\* matching is the set of indices whose element satisfies the test.
\* find: index of the first match, 0 when there is none
FindIndex(matching) ==
  IF matching = {} THEN 0
  ELSE CHOOSE i \in matching : \A j \in matching : i <= j

\* the loops from length-1 down to 0: index of the last match, 0 when none
FindLastIndex(matching) ==
  IF matching = {} THEN 0
  ELSE CHOOSE i \in matching : \A j \in matching : j <= i

\* {...img, ...updates}
Spread(img, updates) ==
  [k \in DOMAIN img |-> IF k \in DOMAIN updates THEN updates[k] ELSE img[k]]

---------------------------------------------------------------------------
(* Geometry *)

\* checkOverlap: the dragged layer's centre lies in the target's bounds,
\* borders included. Both sides are doubled so that the centre stays integral.
checkOverlap(draggingImage, targetImage) ==
  LET dragCenterX2 == 2 * draggingImage.x + Width(draggingImage.image) * draggingImage.scale
      dragCenterY2 == 2 * draggingImage.y + Height(draggingImage.image) * draggingImage.scale
      targetLeft == targetImage.x
      targetRight == targetImage.x + Width(targetImage.image) * targetImage.scale
      targetTop == targetImage.y
      targetBottom == targetImage.y + Height(targetImage.image) * targetImage.scale
  IN /\ dragCenterX2 >= 2 * targetLeft
     /\ dragCenterX2 <= 2 * targetRight
     /\ dragCenterY2 >= 2 * targetTop
     /\ dragCenterY2 <= 2 * targetBottom

\* faulty variant: a ratio of exactly 0.7 passes
checkSizeRatio_Inclusive(draggingImage, targetImage) ==
  10 * Width(draggingImage.image) * Height(draggingImage.image)
     * draggingImage.scale * draggingImage.scale
    <= 7 * Width(targetImage.image) * Height(targetImage.image)
         * targetImage.scale * targetImage.scale

\* checkSizeRatio: draggingArea / targetArea < 0.7
checkSizeRatio(draggingImage, targetImage) ==
  LET draggingArea == Width(draggingImage.image) * Height(draggingImage.image)
                        * draggingImage.scale * draggingImage.scale
      targetArea == Width(targetImage.image) * Height(targetImage.image)
                        * targetImage.scale * targetImage.scale
  IN 10 * draggingArea < 7 * targetArea

\* faulty variant: the loop runs bottom-up, the lowest match wins
OverlapTarget_Bottommost(s, dragging) ==
  FindIndex({i \in 1..Len(s.images) :
               /\ s.images[i].id # dragging.id
               /\ checkOverlap(dragging, s.images[i])
               /\ checkSizeRatio(dragging, s.images[i])})

\* the loop of handleDrag / checkLayerOverlap: index of the topmost other
\* layer the dragged layer overlaps, 0 when there is none
OverlapTarget(s, dragging) ==
  FindLastIndex({i \in 1..Len(s.images) :
                   /\ s.images[i].id # dragging.id
                   /\ checkOverlap(dragging, s.images[i])
                   /\ checkSizeRatio(dragging, s.images[i])})

\* the loop of handleImageClick: index of the topmost layer under the pointer
ClickTarget(s, x, y, rect) ==
  FindLastIndex({i \in 1..Len(s.images) :
    LET img == s.images[i]
        relativeX == x - rect.left - img.x
        relativeY == y - rect.top - img.y
    IN /\ relativeX >= 0 /\ relativeX <= Width(img.image) * img.scale
       /\ relativeY >= 0 /\ relativeY <= Height(img.image) * img.scale})

\* faulty variant: the bottommost layer under the point wins
TopImageAtPoint_Bottommost(s, x, y) ==
  FindIndex({i \in 1..Len(s.images) :
    LET img == s.images[i]
        width == Width(img.image) * (IF img.scale = 0 THEN 1 ELSE img.scale)
        height == Height(img.image) * (IF img.scale = 0 THEN 1 ELSE img.scale)
    IN /\ img.image # NoImage
       /\ x >= img.x /\ x <= img.x + width
       /\ y >= img.y /\ y <= img.y + height})

\* the loop of findTopImageAtPoint: index of the topmost layer that has an
\* image and whose box contains (x, y), 0 when there is none
TopImageAtPoint(s, x, y) ==
  FindLastIndex({i \in 1..Len(s.images) :
    LET img == s.images[i]
        width == Width(img.image) * (IF img.scale = 0 THEN 1 ELSE img.scale)
        height == Height(img.image) * (IF img.scale = 0 THEN 1 ELSE img.scale)
    IN /\ img.image # NoImage
       /\ x >= img.x /\ x <= img.x + width
       /\ y >= img.y /\ y <= img.y + height})

---------------------------------------------------------------------------
(* Recipes: what each method's set((state) => ...) does to a draft of s *)

\* faulty variant: the new layer goes under the others
addImageRecipe_Prepends(s, image, name, id) ==
  LET newImage == [id |-> id, image |-> image, name |-> name, x |-> 0, y |-> 0,
                   scale |-> 1, rotation |-> 0, opacity |-> 1, blendMode |-> "SrcOver"]
  IN [s EXCEPT !.images = <<newImage>> \o @, !.selectedImage = newImage]

addImageRecipe(s, image, name, id) ==
  LET newImage == [id |-> id, image |-> image, name |-> name, x |-> 0, y |-> 0,
                   scale |-> 1, rotation |-> 0, opacity |-> 1, blendMode |-> "SrcOver"]
  IN [s EXCEPT !.images = Append(@, newImage), !.selectedImage = newImage]

selectImageRecipe(s, id) ==
  LET i == FindIndex({k \in 1..Len(s.images) : s.images[k].id = id})
  IN [s EXCEPT !.selectedImage = IF i = 0 THEN Null ELSE s.images[i]]

\* faulty variant: removes the layer and keeps a selection that refers to it
deleteImageRecipe_KeepsSelection(s, id) ==
  [s EXCEPT !.images = SelectSeq(@, LAMBDA img : img.id # id)]

\* faulty variant: every deletion clears the selection
deleteImageRecipe_ClearsSelection(s, id) ==
  [s EXCEPT !.images = SelectSeq(@, LAMBDA img : img.id # id),
            !.selectedImage = Null]

deleteImageRecipe(s, id) ==
  [s EXCEPT !.images = SelectSeq(@, LAMBDA img : img.id # id),
            !.selectedImage = IF @.id = id THEN Null ELSE @]

\* faulty variant: the selection keeps the layer as it was before the update
updateImageContentRecipe_StaleSelection(s, id, updates) ==
  [s EXCEPT
     !.images = [k \in 1..Len(@) |->
                   IF @[k].id = id THEN Spread(@[k], updates) ELSE @[k]]]

updateImageContentRecipe(s, id, updates) ==
  LET i == FindLastIndex({k \in 1..Len(s.images) : s.images[k].id = id})
  IN [s EXCEPT
       !.images = [k \in 1..Len(@) |->
                     IF @[k].id = id THEN Spread(@[k], updates) ELSE @[k]],
       !.selectedImage = IF i # 0 /\ @.id = id THEN Spread(s.images[i], updates) ELSE @]

createDerivedImageRecipe(s, image, name, id) ==
  [s EXCEPT !.images = Append(@, [id |-> id, image |-> image, name |-> name,
                                  x |-> 0, y |-> 0, scale |-> 1, rotation |-> 0,
                                  opacity |-> Undefined, blendMode |-> "undefined"])]

stopDraggingRecipe(s) == [s EXCEPT !.dragState.isDragging = FALSE]

clearSelectionRecipe(s) == [s EXCEPT !.selectedImage = Null]

setDisplacementMaskRecipe(s, maskImage) ==
  [s EXCEPT !.displacementState.maskImage = maskImage]

clearAllImagesRecipe(s) ==
  [s EXCEPT !.images = <<>>,
            !.selectedImage = Null,
            !.isOverlapping = FALSE,
            !.displacementState =
               IF @.dispImage # NoImage THEN NoDisplacement ELSE @]

---------------------------------------------------------------------------
(* Overlap callbacks *)

\* Is a function stored in onEnterOverlap / onDragInOverlap / onLeaveOverlap?
\* setOverlapHandlers stores all three at once.
HasHandlers(s) == s.handlers # "unset"

\* What the registered callback does to the store when it is invoked while
\* the store holds s. SkiaCanvas registers handleEnterOverlap (blend mode
\* Multiply on the dragged layer) and handleLeaveOverlap (back to SrcOver),
\* both through updateImageContent; its cleanup registers empty functions.
CallbackEffect(s, cb, draggingId) ==
  IF s.handlers = "canvas" /\ cb = "enter"
    THEN setState(s, updateImageContentRecipe(s, draggingId, [blendMode |-> "Multiply"]))
  ELSE IF s.handlers = "canvas" /\ cb = "leave"
    THEN setState(s, updateImageContentRecipe(s, draggingId, [blendMode |-> "SrcOver"]))
  ELSE s

\* faulty variant: every overlapping move is reported as an entry
DragCallback_AlwaysEnter(s, hasOverlap) ==
  IF hasOverlap
    THEN IF HasHandlers(s) THEN "enter" ELSE "none"
  ELSE IF s.isOverlapping /\ HasHandlers(s) THEN "leave"
  ELSE "none"

\* the branch of handleDrag's overlap handling that invokes a callback
DragCallback(s, hasOverlap) ==
  IF hasOverlap
    THEN IF ~s.isOverlapping /\ HasHandlers(s) THEN "enter"
         ELSE IF s.isOverlapping /\ HasHandlers(s) THEN "dragIn"
         ELSE "none"
  ELSE IF s.isOverlapping /\ HasHandlers(s) THEN "leave"
  ELSE "none"

\* faulty variant: the new position is written to the selection only
handleDragRecipe_SelectionOnly(s, newX, newY, hasOverlap) ==
  [s EXCEPT
     !.selectedImage = [@ EXCEPT !.x = newX, !.y = newY],
     !.isOverlapping = IF hasOverlap THEN TRUE
                       ELSE IF @ THEN FALSE ELSE @]

\* handleDrag's set((state) => ...), without the callback's own side effect
handleDragRecipe(s, newX, newY, hasOverlap) ==
  [s EXCEPT
     !.selectedImage = [@ EXCEPT !.x = newX, !.y = newY],
     !.images = [k \in 1..Len(@) |->
                   IF @[k].id = s.selectedImage.id
                     THEN [@[k] EXCEPT !.x = newX, !.y = newY] ELSE @[k]],
     !.isOverlapping = IF hasOverlap THEN TRUE
                       ELSE IF @ THEN FALSE ELSE @]

NoCallback == [cb |-> "none", dragging |-> NoId, target |-> NoId]

---------------------------------------------------------------------------
(* The displacement compositor, utils/displacement.ts applyDisplacement *)

\* The calls of the try block, in order. Each may throw; one that throws has
\* allocated nothing. "maskDraw" is the drawImage / drawRect into the mask
\* recorder, "draw" is the clear and drawRect on the output canvas.
Steps ==
  <<"paint", "sourceRecorder", "sourcePicture", "dispRecorder", "dispPicture",
    "maskRecorder", "whitePaint", "maskDraw", "maskPicture", "sourceShader",
    "dispShader", "maskShader", "runtimeEffect", "finalShader", "draw">>

\* the white paint is made only when no mask image is given
Executes(step, hasMask) == ~(step = "whitePaint" /\ hasMask)

Allocating == {Steps[i] : i \in 1..Len(Steps)} \ {"maskDraw", "draw"}

\* what the finally block deletes when the variable was assigned
FinallyDeleted ==
  {"paint", "finalShader", "sourceShader", "dispShader", "maskShader",
   "sourcePicture", "dispPicture", "maskPicture",
   "sourceRecorder", "dispRecorder", "maskRecorder"}

\* throwAt = 0: no call throws; throwAt = k: the k-th call throws. A shader that
\* fails to compile (RuntimeEffect.Make returns null) is the throw at
\* "runtimeEffect".
Done(throwAt, hasMask) ==
  {Steps[i] : i \in {j \in 1..Len(Steps) :
                       (throwAt = 0 \/ j < throwAt) /\ Executes(Steps[j], hasMask)}}

DisplacementLeaked(throwAt, hasMask) ==
  LET allocated == Done(throwAt, hasMask) \cap Allocating
      inline == IF "maskDraw" \in Done(throwAt, hasMask) THEN {"whitePaint"} ELSE {}
  IN allocated \ (FinallyDeleted \cup inline)

ThrowPoints(hasMask) ==
  {0} \cup {j \in 1..Len(Steps) : Executes(Steps[j], hasMask)}

---------------------------------------------------------------------------
(* Store methods *)

\* the method op leaves the store holding s, having invoked callback f, with
\* rendering account ap
Finish(op, s, f, ap) ==
  /\ Commit(s)
  /\ lastOp' = op
  /\ fired' = f
  /\ lastApply' = ap
  /\ UNCHANGED canvasVars
  /\ UNCHANGED componentVars
  /\ UNCHANGED engineVars
  /\ UNCHANGED mockupVars
  /\ returned' = NoReturn

Init ==
  /\ images = <<>>
  /\ selectedImage = Null
  /\ dragState = InitDragState
  /\ displacementState = NoDisplacement
  /\ isOverlapping = FALSE
  /\ handlers = "unset"
  /\ fired = NoCallback
  /\ lastOp = "init"
  /\ lastApply = NoApply
  /\ transform = InitTransform
  /\ isPanning = FALSE
  /\ lastPanPosition = InitPanPosition
  /\ panOrigin = NoPan
  /\ dragRef = NoDragRef
  /\ pending = <<>>
  /\ returned = NoReturn
  /\ mounted = "none"
  /\ released = NoneReleased
  /\ closure = <<>>
  /\ imageDB = {}
  /\ projects = [p \in ProjectIds |-> NoProject]
  /\ activeProjectId = NoProjectId
  /\ heap = EmptyHeap
  /\ instances = InitInstances
  /\ canvasState = InitCanvasState
  /\ mockup = InitMockup
  /\ loads = [c \in MockupCalls |-> NoLoad]

addImage(image, name) ==
  Finish("addImage", setState(Store, addImageRecipe(Store, image, name, randomUUID(Store))),
         NoCallback, NoApply)

selectImage(id) ==
  Finish("selectImage", setState(Store, selectImageRecipe(Store, id)),
         NoCallback, NoApply)

deleteImage(id) ==
  Finish("deleteImage", setState(Store, deleteImageRecipe(Store, id)),
         NoCallback, NoApply)

updateImageContent(id, updates) ==
  Finish("updateImageContent", setState(Store, updateImageContentRecipe(Store, id, updates)),
         NoCallback, NoApply)

createDerivedImage(image, name) ==
  Finish("createDerivedImage",
         setState(Store, createDerivedImageRecipe(Store, image, name, randomUUID(Store))),
         NoCallback, NoApply)

\* handleImageClick as a function of the state the store holds
handleImageClickResult(state, x, y, rect) ==
  LET i == ClickTarget(state, x, y, rect)
  IN IF i # 0 THEN setState(state, [state EXCEPT !.selectedImage = state.images[i]])
              ELSE state

handleImageClick(x, y, rect) ==
  Finish("handleImageClick", handleImageClickResult(Store, x, y, rect),
         NoCallback, NoApply)

\* startDragging as a function of the state the store holds
startDraggingResult(state, x, y, rect) ==
  IF state.selectedImage # Null
    THEN setState(state,
           [state EXCEPT !.dragState =
              [isDragging |-> TRUE,
               startX |-> x - rect.left,
               startY |-> y - rect.top,
               offsetX |-> state.selectedImage.x,
               offsetY |-> state.selectedImage.y]])
    ELSE state

startDragging(x, y, rect) ==
  Finish("startDragging", startDraggingResult(Store, x, y, rect), NoCallback, NoApply)

\* handleDrag past its early return, as a function of the state the store
\* holds: the state it leaves and the callback it invokes
handleDragResult(state, x, y, rect) ==
  LET newX == state.dragState.offsetX + (x - rect.left - state.dragState.startX)
      newY == state.dragState.offsetY + (y - rect.top - state.dragState.startY)
      updatedDraggingImage == [state.selectedImage EXCEPT !.x = newX, !.y = newY]
      ti == OverlapTarget(state, updatedDraggingImage)
      hasOverlap == ti # 0
      cb == DragCallback(state, hasOverlap)
      \* the callback runs inside the recipe: its set() commits first and is
      \* then overwritten by the recipe's result, computed from `state`
      afterCallback == CallbackEffect(state, cb, updatedDraggingImage.id)
  IN [store |-> setState(afterCallback, handleDragRecipe(state, newX, newY, hasOverlap)),
      fired |-> [cb |-> cb, dragging |-> updatedDraggingImage.id,
                 target |-> IF cb \in {"enter", "dragIn"} THEN state.images[ti].id
                            ELSE NoId]]

handleDrag(x, y, rect) ==
  LET state == Store
      newX == state.dragState.offsetX + (x - rect.left - state.dragState.startX)
      newY == state.dragState.offsetY + (y - rect.top - state.dragState.startY)
      result == handleDragResult(state, x, y, rect)
  IN /\ state.dragState.isDragging
     /\ state.selectedImage # Null
     /\ newX \in 0..MaxCoord
     /\ newY \in 0..MaxCoord
     /\ Finish("handleDrag", result.store, result.fired, NoApply)

stopDragging ==
  Finish("stopDragging", setState(Store, stopDraggingRecipe(Store)), NoCallback, NoApply)

clearSelection ==
  Finish("clearSelection", setState(Store, clearSelectionRecipe(Store)), NoCallback, NoApply)

\* The recipe calls state.addImage, whose own set() commits the new layer; the
\* recipe then commits its result, a copy of the state it was entered with in
\* which only displacementState was assigned.
startDisplacement(sourceId, dispImage) ==
  LET state == Store
      afterAddImage ==
        setState(state,
          addImageRecipe(state, dispImage, "displacement-map-temp", randomUUID(state)))
      result ==
        [state EXCEPT !.displacementState =
           [sourceId |-> sourceId, dispImage |-> dispImage, maskImage |-> NoImage]]
  IN Finish("startDisplacement", setState(afterAddImage, result), NoCallback, NoApply)

setDisplacementMask(maskImage) ==
  Finish("setDisplacementMask", setState(Store, setDisplacementMaskRecipe(Store, maskImage)),
         NoCallback, NoApply)

\* faulty variant: the presence of the source layer is not checked
MissingInputs_IgnoresSource(ds, si) == ds.sourceId = NoId \/ ds.dispImage = NoImage

\* the early returns taken before the displacement-map layer is looked up:
\* no source id, no displacement map, or no layer with the source id
MissingInputs(ds, si) == ds.sourceId = NoId \/ ds.dispImage = NoImage \/ si = 0

\* surfaceOk: canvasKit.MakeSurface returned a surface; throwAt: the call of
\* the compositor that throws (0: none).
applyDisplacement(surfaceOk, throwAt) ==
  LET state == Store
      ds == state.displacementState
      si == FindIndex({i \in 1..Len(state.images) : state.images[i].id = ds.sourceId})
      di == FindIndex({i \in 1..Len(state.images) : state.images[i].image = ds.dispImage})
      hasMask == ds.maskImage # NoImage
      snapshot == 10 + BaseImage(state.images[si].image)
      afterDerived ==
        setState(state,
          createDerivedImageRecipe(state, snapshot, "displaced", randomUUID(state)))
      afterDelete ==
        setState(afterDerived, deleteImageRecipe(afterDerived, state.images[di].id))
  IN IF MissingInputs(ds, si) \/ di = 0
       THEN Finish("applyDisplacement", state, NoCallback,
                   Account("noop", FALSE, "none", {}))
     ELSE IF ~surfaceOk
       THEN Finish("applyDisplacement", state, NoCallback,
                   Account("nosurface", FALSE, "none", {}))
     ELSE IF throwAt # 0
       \* the exception leaves applyDisplacement before tempSurface.delete()
       THEN /\ throwAt \in ThrowPoints(hasMask)
            /\ Finish("applyDisplacement", state, NoCallback,
                      Account("threw", TRUE, Steps[throwAt],
                              DisplacementLeaked(throwAt, hasMask)))
     \* createDerivedImage and deleteImage each commit; the assignment
     \* state.displacementState = {...} that follows writes to the object get()
     \* returned at entry, which the store no longer holds
     ELSE Finish("applyDisplacement", afterDelete, NoCallback,
                 Account("ok", FALSE, "none", DisplacementLeaked(0, hasMask)))

cancelDisplacement ==
  LET state == Store
      dispImage == state.displacementState.dispImage
      di == FindIndex({i \in 1..Len(state.images) : state.images[i].image = dispImage})
      afterDelete ==
        IF dispImage # NoImage /\ di # 0
          THEN setState(state, deleteImageRecipe(state, state.images[di].id))
          ELSE state
  IN Finish("cancelDisplacement",
            setState(afterDelete, [afterDelete EXCEPT !.displacementState = NoDisplacement]),
            NoCallback, NoApply)

setOverlapHandlers(kind) ==
  Finish("setOverlapHandlers", setState(Store, [handlers |-> kind]), NoCallback, NoApply)

checkLayerOverlap ==
  LET state == Store
      ti == OverlapTarget(state, state.selectedImage)
      cb == IF ti # 0
              THEN IF ~state.isOverlapping /\ HasHandlers(state) THEN "enter" ELSE "none"
            ELSE IF state.isOverlapping /\ HasHandlers(state) THEN "leave" ELSE "none"
      afterCallback == CallbackEffect(state, cb, state.selectedImage.id)
  IN IF state.selectedImage = Null
       THEN Finish("checkLayerOverlap", state, NoCallback, NoApply)
       ELSE Finish("checkLayerOverlap",
                   setState(afterCallback, [isOverlapping |-> ti # 0]),
                   [cb |-> cb, dragging |-> state.selectedImage.id,
                    target |-> IF cb = "enter" THEN state.images[ti].id ELSE NoId],
                   NoApply)

clearAllImages ==
  Finish("clearAllImages", setState(Store, clearAllImagesRecipe(Store)),
         NoCallback, NoApply)

\* The store under the calls of its layer, selection, drag and displacement
\* methods, with the pointer at one position.
Next ==
  \/ Len(images) < MaxLayers /\ \E image \in InputImages : addImage(image, "user")
  \/ \E id \in Ids : selectImage(id)
  \/ \E id \in Ids : deleteImage(id)
  \/ \E id \in Ids, updates \in Updates : updateImageContent(id, updates)
  \/ Len(images) < MaxLayers /\ \E image \in Snapshots : createDerivedImage(image, "displaced")
  \/ \E p \in Points, rect \in Rects : handleImageClick(p[1], p[2], rect)
  \/ \E p \in Points, rect \in Rects : startDragging(p[1], p[2], rect)
  \/ \E p \in Points, rect \in Rects : handleDrag(p[1], p[2], rect)
  \/ stopDragging
  \/ clearSelection
  \/ \E id \in Ids, image \in DisplacementMaps : startDisplacement(id, image)
  \/ \E image \in MaskImages : setDisplacementMask(image)
  \/ \E surfaceOk \in BOOLEAN, throwAt \in 0..Len(Steps) : applyDisplacement(surfaceOk, throwAt)
  \/ cancelDisplacement
  \/ clearAllImages

Spec == Init /\ [][Next]_vars

\* The store under drag gestures: layers are added, selected, dragged between
\* two pointer positions and dropped, with the overlap callbacks registered or not.
NextDrag ==
  \/ Len(images) < MaxLayers /\ \E image \in InputImages : addImage(image, "user")
  \/ \E id \in Ids : selectImage(id)
  \/ \E id \in Ids : deleteImage(id)
  \/ \E id \in Ids, updates \in DragUpdates : updateImageContent(id, updates)
  \/ \E p \in DragPoints, rect \in Rects : handleImageClick(p[1], p[2], rect)
  \/ \E p \in DragPoints, rect \in Rects : startDragging(p[1], p[2], rect)
  \/ \E p \in DragPoints, rect \in Rects : handleDrag(p[1], p[2], rect)
  \/ stopDragging
  \/ \E kind \in {"canvas", "noop"} : setOverlapHandlers(kind)
  \/ checkLayerOverlap
  \/ clearAllImages

SpecDrag == Init /\ [][NextDrag]_vars

\* handleDrag of the earlier revision of the store (src/unnamed/part_003):
\* the callbacks of the overlapping branch run before set(), so what they
\* commit is the state the recipe starts from; the recipe replaces the
\* selected layer in images by updatedDraggingImage and does not assign
\* selectedImage. onLeaveOverlap is called without argument inside the
\* recipe: the handler of SkiaCanvas then throws on draggingImage.id and the
\* recipe is abandoned. The other methods are those of the current store.
handleDragEarlierResult(state, x, y, rect) ==
  LET newX == state.dragState.offsetX + (x - rect.left - state.dragState.startX)
      newY == state.dragState.offsetY + (y - rect.top - state.dragState.startY)
      updatedDraggingImage == [state.selectedImage EXCEPT !.x = newX, !.y = newY]
      ti == OverlapTarget(state, updatedDraggingImage)
      cb == DragCallback(state, ti # 0)
      afterCallback == CallbackEffect(state, cb, updatedDraggingImage.id)
      replaced(s) == [k \in 1..Len(s.images) |->
                        IF s.images[k].id = s.selectedImage.id
                          THEN updatedDraggingImage ELSE s.images[k]]
  IN [store |->
        IF ti # 0
          THEN setState(afterCallback,
                 [afterCallback EXCEPT !.isOverlapping = TRUE,
                                       !.images = replaced(afterCallback)])
        ELSE IF cb = "leave" /\ state.handlers = "canvas"
          THEN state
        ELSE setState(state,
               [state EXCEPT !.isOverlapping = FALSE, !.images = replaced(state)]),
      fired |-> [cb |-> cb,
                 dragging |-> IF cb = "leave" THEN NoId ELSE updatedDraggingImage.id,
                 target |-> IF cb \in {"enter", "dragIn"} THEN state.images[ti].id
                            ELSE NoId]]

handleDragEarlier(x, y, rect) ==
  LET state == Store
      newX == state.dragState.offsetX + (x - rect.left - state.dragState.startX)
      newY == state.dragState.offsetY + (y - rect.top - state.dragState.startY)
      result == handleDragEarlierResult(state, x, y, rect)
  IN /\ state.dragState.isDragging
     /\ state.selectedImage # Null
     /\ newX \in 0..MaxCoord
     /\ newY \in 0..MaxCoord
     /\ Finish("handleDrag", result.store, result.fired, NoApply)

\* The earlier revision of the store under drag gestures.
NextDragEarlier ==
  \/ Len(images) < MaxLayers /\ \E image \in InputImages : addImage(image, "user")
  \/ \E id \in Ids : selectImage(id)
  \/ \E id \in Ids : deleteImage(id)
  \/ \E id \in Ids, updates \in DragUpdates : updateImageContent(id, updates)
  \/ \E p \in DragPoints, rect \in Rects : handleImageClick(p[1], p[2], rect)
  \/ \E p \in DragPoints, rect \in Rects : startDragging(p[1], p[2], rect)
  \/ \E p \in DragPoints, rect \in Rects : handleDragEarlier(p[1], p[2], rect)
  \/ stopDragging
  \/ \E kind \in {"canvas", "noop"} : setOverlapHandlers(kind)
  \/ clearAllImages

SpecDragEarlier == Init /\ [][NextDragEarlier]_vars

\* arguments of updateImageContent, a Partial<ImageObject>: a position, or
\* an id
IdUpdates == {[x |-> 2, y |-> 2]} \cup {[id |-> i] : i \in 1..MaxLayers}

\* The store under the calls that create, change and remove layers, with
\* updates that name any attribute of a layer.
NextIds ==
  \/ Len(images) < MaxLayers /\ \E image \in InputImages : addImage(image, "user")
  \/ Len(images) < MaxLayers /\ \E image \in Snapshots : createDerivedImage(image, "displaced")
  \/ \E id \in Ids : selectImage(id)
  \/ \E id \in Ids : deleteImage(id)
  \/ \E id \in Ids, updates \in IdUpdates : updateImageContent(id, updates)
  \/ \E p \in Points, rect \in Rects : handleImageClick(p[1], p[2], rect)
  \/ \E p \in Points, rect \in Rects : startDragging(p[1], p[2], rect)
  \/ \E p \in DragPoints, rect \in Rects : handleDrag(p[1], p[2], rect)
  \/ stopDragging

SpecIds == Init /\ [][NextIds]_vars

---------------------------------------------------------------------------
(* The canvas store, src/src/store/canvasKitStore.ts *)

\* get() of the canvas store
CanvasStore ==
  [transform |-> transform, isPanning |-> isPanning, lastPanPosition |-> lastPanPosition]

\* wheel deltas (WheelEvent.deltaY): with the modifier they scale by
\* 1 - deltaY / 1000, i.e. by 2, 1/2, -1 (clamped) and 501/500
WheelDeltas == {0 - 1000, 500, 2000, 0 - 2}
\* pointer positions handed to the canvas store (clientX, clientY)
PanPoints == {<<0, 0>>, <<2, 2>>}

MinScale == Frac(1, 10)
MaxScale == FromInt(10)

startPanningRecipe(c, x, y) ==
  [c EXCEPT !.isPanning = TRUE, !.lastPanPosition = [x |-> x, y |-> y]]

\* faulty variant: the last position is not advanced, so every move adds the
\* whole distance from the start again
updatePanningRecipe_KeepsLast(c, x, y) ==
  IF c.isPanning
    THEN [c EXCEPT !.transform.x = FracAdd(@, FromInt(x - c.lastPanPosition.x)),
                   !.transform.y = FracAdd(@, FromInt(y - c.lastPanPosition.y))]
    ELSE c

updatePanningRecipe(c, x, y) ==
  IF c.isPanning
    THEN LET dx == x - c.lastPanPosition.x
             dy == y - c.lastPanPosition.y
         IN [c EXCEPT !.transform.x = FracAdd(@, FromInt(dx)),
                      !.transform.y = FracAdd(@, FromInt(dy)),
                      !.lastPanPosition = [x |-> x, y |-> y]]
    ELSE c

stopPanningRecipe(c) == [c EXCEPT !.isPanning = FALSE]

\* faulty variant: no lower limit
ClampScale_NoFloor(v) == FracMin(MaxScale, v)

\* Math.max(0.1, Math.min(10, v))
ClampScale(v) == FracMax(MinScale, FracMin(MaxScale, v))

\* faulty variant: the scale changes and the position is left alone
handleWheelRecipe_KeepsPosition(c, deltaY, isCtrlPressed, clientX, clientY) ==
  IF isCtrlPressed
    THEN [c EXCEPT !.transform.scale =
            FracMax(MinScale, FracMin(MaxScale,
              FracMul(@, FracSub(FromInt(1), Frac(deltaY, 1000)))))]
    ELSE [c EXCEPT !.transform.y = FracSub(@, FromInt(deltaY))]

handleWheelRecipe(c, deltaY, isCtrlPressed, clientX, clientY) ==
  IF isCtrlPressed
    THEN LET scaleFactor == FracSub(FromInt(1), Frac(deltaY, 1000))
             oldScale == c.transform.scale
             newScale == ClampScale(FracMul(oldScale, scaleFactor))
             mouseX == FracSub(FromInt(clientX), c.transform.x)
             mouseY == FracSub(FromInt(clientY), c.transform.y)
         IN [c EXCEPT
               !.transform.scale = newScale,
               !.transform.x =
                  FracAdd(@, FracSub(mouseX, FracDiv(FracMul(mouseX, newScale), oldScale))),
               !.transform.y =
                  FracAdd(@, FracSub(mouseY, FracDiv(FracMul(mouseY, newScale), oldScale)))]
    ELSE [c EXCEPT !.transform.y = FracSub(@, FromInt(deltaY))]

\* the transforms the model follows
InView(tr) ==
  /\ \A k \in {"x", "y"} : tr[k][2] <= MaxDenominator
  /\ tr.scale[2] <= MaxScaleDenominator
  /\ \A k \in {"x", "y"} : Abs(tr[k][1]) <= MaxOffset * tr[k][2]

\* the canvas store now holds c; origin is what is remembered of the running pan
FinishCanvas(op, c, origin) ==
  /\ InView(c.transform)
  /\ transform' = c.transform
  /\ isPanning' = c.isPanning
  /\ lastPanPosition' = c.lastPanPosition
  /\ panOrigin' = origin
  /\ lastOp' = op
  /\ fired' = NoCallback
  /\ lastApply' = NoApply
  /\ UNCHANGED <<images, selectedImage, dragState, displacementState, isOverlapping, handlers>>
  /\ UNCHANGED componentVars
  /\ UNCHANGED engineVars
  /\ UNCHANGED mockupVars
  /\ returned' = NoReturn

startPanning(x, y) ==
  FinishCanvas("startPanning", startPanningRecipe(CanvasStore, x, y),
               [active |-> TRUE,
                x |-> FracSub(transform.x, FromInt(x)),
                y |-> FracSub(transform.y, FromInt(y)),
                scale |-> transform.scale])

updatePanning(x, y) ==
  FinishCanvas("updatePanning", updatePanningRecipe(CanvasStore, x, y), panOrigin)

stopPanning ==
  FinishCanvas("stopPanning", stopPanningRecipe(CanvasStore), NoPan)

handleWheel(deltaY, isCtrlPressed, clientX, clientY) ==
  FinishCanvas("handleWheel",
               handleWheelRecipe(CanvasStore, deltaY, isCtrlPressed, clientX, clientY),
               NoPan)

\* The canvas store under wheel and pan calls.
NextZoom ==
  \/ \E p \in PanPoints : startPanning(p[1], p[2])
  \/ \E p \in PanPoints : updatePanning(p[1], p[2])
  \/ stopPanning
  \/ \E deltaY \in WheelDeltas, isCtrlPressed \in BOOLEAN, p \in PanPoints :
       handleWheel(deltaY, isCtrlPressed, p[1], p[2])

SpecZoom == Init /\ [][NextZoom]_vars

\* arguments of updateTransform: a scale of zero, a scale above the zoom
\* range, and a position
TransformUpdates ==
  {[scale |-> FromInt(0)], [scale |-> FromInt(20)], [x |-> FromInt(2), y |-> FromInt(2)]}

\* updateTransform(newTransform): Object.assign(state.transform, newTransform)
updateTransform(newTransform) ==
  FinishCanvas("updateTransform",
               [CanvasStore EXCEPT !.transform = Spread(@, newTransform)], panOrigin)

\* The canvas store under all its transform actions. A zoom whose old scale
\* is zero divides by zero; its NaN / Infinity results are not followed.
NextTransform ==
  \/ \E newTransform \in TransformUpdates : updateTransform(newTransform)
  \/ \E p \in PanPoints : startPanning(p[1], p[2])
  \/ \E p \in PanPoints : updatePanning(p[1], p[2])
  \/ stopPanning
  \/ \E deltaY \in WheelDeltas, isCtrlPressed \in BOOLEAN, p \in PanPoints :
       /\ isCtrlPressed => transform.scale # FromInt(0)
       /\ handleWheel(deltaY, isCtrlPressed, p[1], p[2])

SpecTransform == Init /\ [][NextTransform]_vars

---------------------------------------------------------------------------
(* Queries of the image store *)

\* a query returned r; the stores are as they were
FinishQuery(op, r) ==
  /\ lastOp' = op
  /\ returned' = r
  /\ UNCHANGED imageVars
  /\ UNCHANGED canvasVars
  /\ UNCHANGED componentVars
  /\ UNCHANGED engineVars
  /\ UNCHANGED mockupVars

findTopImageAtPoint(x, y) ==
  LET i == TopImageAtPoint(Store, x, y)
  IN FinishQuery("findTopImageAtPoint",
                 [of |-> "findTopImageAtPoint", x |-> x, y |-> y,
                  value |-> IF i = 0 THEN Null ELSE images[i]])

\* state.checkOverlap(top, bottom) && state.checkSizeRatio(top, bottom) on the
\* layers at indices i and j
checkOverlapAndSizeRatio(i, j) ==
  /\ i \in 1..Len(images) /\ j \in 1..Len(images) /\ i # j
  /\ images[i].image # NoImage /\ images[j].image # NoImage
  /\ FinishQuery("checkOverlapAndSizeRatio",
                 [of |-> "checkOverlapAndSizeRatio", top |-> i, bottom |-> j,
                  value |-> checkOverlap(images[i], images[j])
                              /\ checkSizeRatio(images[i], images[j])])

\* Layers the geometry is evaluated on: every handle, whole positions, scales
\* 1 and 2; the lower layer may be one restored from storage, without image.
GeometryScales == {1, 2}
GeometryPoints == {<<0, 0>>, <<2, 2>>, <<4, 4>>, <<3, 1>>}
Layer(id, image, x, y, scale) ==
  [id |-> id, image |-> image, name |-> "user", x |-> x, y |-> y, scale |-> scale,
   rotation |-> 0, opacity |-> 1, blendMode |-> "SrcOver"]

InitGeometry ==
  /\ \E imageA \in {NoImage, 1, 2, 3, 4}, imageB \in {1, 2, 3, 4},
        xB \in 0..MaxCoord, yB \in 0..MaxCoord, xA \in {0, 2}, yA \in {0, 2},
        scaleA \in GeometryScales, scaleB \in GeometryScales :
       images = <<Layer(1, imageA, xA, yA, scaleA), Layer(2, imageB, xB, yB, scaleB)>>
  /\ selectedImage = Null
  /\ dragState = InitDragState
  /\ displacementState = NoDisplacement
  /\ isOverlapping = FALSE
  /\ handlers = "unset"
  /\ fired = NoCallback
  /\ lastOp = "init"
  /\ lastApply = NoApply
  /\ transform = InitTransform
  /\ isPanning = FALSE
  /\ lastPanPosition = InitPanPosition
  /\ panOrigin = NoPan
  /\ dragRef = NoDragRef
  /\ pending = <<>>
  /\ returned = NoReturn
  /\ mounted = "none"
  /\ released = NoneReleased
  /\ closure = <<>>
  /\ imageDB = {}
  /\ projects = [p \in ProjectIds |-> NoProject]
  /\ activeProjectId = NoProjectId
  /\ heap = EmptyHeap
  /\ instances = InitInstances
  /\ canvasState = InitCanvasState
  /\ mockup = InitMockup
  /\ loads = [c \in MockupCalls |-> NoLoad]

NextGeometry ==
  \/ \E p \in GeometryPoints : findTopImageAtPoint(p[1], p[2])
  \/ \E i \in 1..MaxLayers, j \in 1..MaxLayers : checkOverlapAndSizeRatio(i, j)

SpecGeometry == InitGeometry /\ [][NextGeometry]_vars

---------------------------------------------------------------------------
(* A drag over a stack of three layers *)

\* pointer positions of the drag
StackPoints == {<<0, 0>>, <<2, 2>>}
\* where the three layers lie when the gesture starts
StackOrigins == {0, 2}

\* Three layers were added and moved, one of them is selected and grabbed at
\* the origin; the overlap callbacks of SkiaCanvas are registered.
InitStack ==
  /\ \E a \in InputImages, b \in InputImages, c \in InputImages,
        xa \in StackOrigins, xb \in StackOrigins, xc \in StackOrigins,
        ya \in StackOrigins, k \in 1..3 :
       /\ images = <<Layer(1, a, xa, ya, 1), Layer(2, b, xb, xb, 1), Layer(3, c, xc, xc, 1)>>
       /\ selectedImage = images[k]
       /\ dragState = [isDragging |-> TRUE, startX |-> 0, startY |-> 0,
                       offsetX |-> images[k].x, offsetY |-> images[k].y]
  /\ displacementState = NoDisplacement
  /\ isOverlapping = FALSE
  /\ handlers = "canvas"
  /\ fired = NoCallback
  /\ lastOp = "init"
  /\ lastApply = NoApply
  /\ transform = InitTransform
  /\ isPanning = FALSE
  /\ lastPanPosition = InitPanPosition
  /\ panOrigin = NoPan
  /\ dragRef = NoDragRef
  /\ pending = <<>>
  /\ returned = NoReturn
  /\ mounted = "none"
  /\ released = NoneReleased
  /\ closure = <<>>
  /\ imageDB = {}
  /\ projects = [p \in ProjectIds |-> NoProject]
  /\ activeProjectId = NoProjectId
  /\ heap = EmptyHeap
  /\ instances = InitInstances
  /\ canvasState = InitCanvasState
  /\ mockup = InitMockup
  /\ loads = [c \in MockupCalls |-> NoLoad]

NextStack ==
  \/ \E p \in StackPoints, rect \in Rects : startDragging(p[1], p[2], rect)
  \/ \E p \in StackPoints, rect \in Rects : handleDrag(p[1], p[2], rect)
  \/ stopDragging

SpecStack == InitStack /\ [][NextStack]_vars

---------------------------------------------------------------------------
(* Mounting, drawing and unmounting SkiaCanvas *)

\* delete() calls followed per Image object
MaxReleases == 2

\* the unmount cleanup's images.forEach: delete() on every layer's image, in
\* order; delete() on an object already deleted throws and ends the loop
RECURSIVE ReleaseAll(_, _)
ReleaseAll(rel, layers) ==
  IF layers = <<>> THEN rel
  ELSE LET img == Head(layers)
       IN IF img.image = NoImage THEN ReleaseAll(rel, Tail(layers))
          ELSE IF rel[img.image] > 0 THEN [rel EXCEPT ![img.image] = @ + 1]
          ELSE ReleaseAll([rel EXCEPT ![img.image] = @ + 1], Tail(layers))

\* the images.forEach of drawImages: the handles passed to canvas.drawImage
DrawnImages(layers) ==
  [i \in 1..Len(SelectSeq(layers, LAMBDA img : img.image # NoImage)) |->
     SelectSeq(layers, LAMBDA img : img.image # NoImage)[i].image]

\* a step of the component: the stores are as they were
FinishComponent(op, which, rel, captured, r) ==
  /\ lastOp' = op
  /\ mounted' = which
  /\ released' = rel
  /\ closure' = captured
  /\ returned' = r
  /\ UNCHANGED imageVars
  /\ UNCHANGED canvasVars
  /\ UNCHANGED <<dragRef, pending, imageDB>>
  /\ UNCHANGED engineVars
  /\ UNCHANGED mockupVars

\* first render: the cleanup effect (dependencies []) closes over the images
\* the store holds now
mountCanvas ==
  /\ mounted = "none"
  /\ FinishComponent("mountCanvas", "SkiaCanvas", released, images, NoReturn)

\* the cleanup effect runs
unmountCanvas ==
  /\ mounted = "SkiaCanvas"
  /\ \A h \in Handles : ReleaseAll(released, closure)[h] <= MaxReleases
  /\ FinishComponent("unmountCanvas", "none", ReleaseAll(released, closure), <<>>, NoReturn)

\* the draw effect runs with the images the store holds
drawImages ==
  /\ mounted = "SkiaCanvas"
  /\ FinishComponent("drawImages", mounted, released, closure,
                     [of |-> "drawImages", drawn |-> DrawnImages(images)])

\* Layers are added and destroyed through the store while the canvas
\* component is mounted, drawn and unmounted.
NextLifecycle ==
  \/ Len(images) < MaxLayers /\ \E image \in InputImages : addImage(image, "user")
  \/ \E id \in Ids : deleteImage(id)
  \/ clearAllImages
  \/ mountCanvas
  \/ unmountCanvas
  \/ drawImages

SpecLifecycle == Init /\ [][NextLifecycle]_vars

---------------------------------------------------------------------------
(* Uploading a file: LayerPanel handleFileUpload, uploadImage, saveImage *)

\* how saveImage ends: it resolves, initDB rejects (openDB failed, or the
\* database is still null afterwards), or put rejects
SaveOutcomes == {"ok", "initDB", "put"}

\* uploadImage(file, canvasKit): image is the object MakeImageFromEncoded
\* returns for the file's bytes (NoImage when it returns null)
uploadImageResult(image, saveOutcome) ==
  IF image = NoImage THEN [threw |-> TRUE, error |-> "Failed to create image"]
  ELSE IF saveOutcome # "ok" THEN [threw |-> TRUE, error |-> saveOutcome]
  ELSE [threw |-> FALSE, image |-> image]

\* LayerPanel's handleFileUpload: try { uploadImage; addImage } catch { log }
handleFileUpload(image, saveOutcome) ==
  LET result == uploadImageResult(image, saveOutcome)
  IN /\ Len(images) < MaxLayers
     /\ Commit(IF result.threw THEN Store
               ELSE setState(Store, addImageRecipe(Store, result.image, "user",
                                                   randomUUID(Store))))
     /\ imageDB' = IF image # NoImage /\ saveOutcome = "ok" THEN imageDB \cup {image}
                   ELSE imageDB
     /\ lastOp' = "handleFileUpload"
     /\ returned' = [of |-> "handleFileUpload", image |-> image, save |-> saveOutcome,
                     caught |-> result.threw]
     /\ fired' = NoCallback
     /\ lastApply' = NoApply
     /\ UNCHANGED canvasVars
     /\ UNCHANGED <<dragRef, pending, mounted, released, closure>>
     /\ UNCHANGED engineVars
     /\ UNCHANGED mockupVars

\* Files are uploaded through the layer panel, whose buttons also select,
\* delete and clear layers.
NextUpload ==
  \/ \E image \in InputImages \cup {NoImage}, saveOutcome \in SaveOutcomes :
       handleFileUpload(image, saveOutcome)
  \/ \E id \in Ids : selectImage(id)
  \/ \E id \in Ids : deleteImage(id)
  \/ clearAllImages

SpecUpload == Init /\ [][NextUpload]_vars

---------------------------------------------------------------------------
(* The per-project canvas store, src/unnamed/part_000 lines 221-497 *)

\* the projects the store holds
Existing(ps) == {p \in ProjectIds : ps[p] # NoProject}

\* the transform objects some project refers to
Referenced(ps) == {ps[p].transform : p \in Existing(ps)}

\* an object literal: the least object no project refers to
NewObject(ps) ==
  CHOOSE o \in 1..MaxObjects :
    o \notin Referenced(ps) /\ \A n \in 1..MaxObjects : n < o => n \in Referenced(ps)

\* what the store's recipes see of a project: its fields by value
ProjectCanvas(ps, hp, p) ==
  [transform |-> hp[ps[p].transform], isPanning |-> ps[p].isPanning,
   lastPanPosition |-> ps[p].lastPanPosition]

\* the transforms the model follows for a project
ProjectView(tr) ==
  /\ tr.x = FromInt(0)
  /\ tr.y \in {FromInt(0), FromInt(2)}
  /\ tr.scale \in {FromInt(1), FromInt(2)}

\* inputs of the per-project pan and wheel calls
ProjectPanPoints == {<<0, 0>>, <<0, 2>>}
ProjectWheels ==
  {[deltaY |-> 0 - 1000, isCtrlPressed |-> TRUE], [deltaY |-> 500, isCtrlPressed |-> TRUE],
   [deltaY |-> 0 - 2, isCtrlPressed |-> FALSE], [deltaY |-> 2, isCtrlPressed |-> FALSE]}
ProjectTransforms == {[scale |-> FromInt(2)], [x |-> FromInt(0), y |-> FromInt(0)]}

\* the store holds projects ps whose transform objects hold hp; objects no
\* project refers to any more are dropped
FinishProjects(op, ps, active, hp) ==
  /\ \A p \in Existing(ps) : ProjectView(hp[ps[p].transform])
  /\ projects' = ps
  /\ activeProjectId' = active
  /\ heap' = [o \in 1..MaxObjects |-> IF o \in Referenced(ps) THEN hp[o] ELSE NoObject]
  /\ UNCHANGED <<lastOp, returned>>
  /\ UNCHANGED <<instances, canvasState>>
  /\ UNCHANGED mockupVars
  /\ UNCHANGED imageVars
  /\ UNCHANGED canvasVars
  /\ UNCHANGED componentVars

\* faulty variant: every project is created with one shared default transform
createProject_SharedTransform(id, name) ==
  LET o == IF Referenced(projects) = {} THEN 1
           ELSE CHOOSE n \in Referenced(projects) : TRUE
  IN FinishProjects("createProject",
       [projects EXCEPT ![id] =
          [id |-> id, name |-> name, canvasKit |-> FALSE, surfaces |-> {},
           transform |-> o, isPanning |-> FALSE, lastPanPosition |-> InitPanPosition]],
       IF activeProjectId = NoProjectId THEN id ELSE activeProjectId,
       [heap EXCEPT ![o] = InitTransform])

createProject(id, name) ==
  LET others == [projects EXCEPT ![id] = NoProject]
      o == NewObject(others)
  IN FinishProjects("createProject",
       [projects EXCEPT ![id] =
          [id |-> id, name |-> name, canvasKit |-> FALSE, surfaces |-> {},
           transform |-> o, isPanning |-> FALSE, lastPanPosition |-> InitPanPosition]],
       IF activeProjectId = NoProjectId THEN id ELSE activeProjectId,
       [heap EXCEPT ![o] = InitTransform])

\* initialize(canvasKit): the active project is given the engine
initializeProject ==
  FinishProjects("initialize",
    IF activeProjectId # NoProjectId /\ projects[activeProjectId] # NoProject
      THEN [projects EXCEPT ![activeProjectId].canvasKit = TRUE]
      ELSE projects,
    activeProjectId, heap)

cleanupProjects ==
  FinishProjects("cleanup", [p \in ProjectIds |-> NoProject], NoProjectId, heap)

deleteProject(projectId) ==
  FinishProjects("deleteProject", [projects EXCEPT ![projectId] = NoProject],
                 activeProjectId, heap)

\* createSurface(projectId, surfaceId, width, height): canvas is whether the
\* element exists, made whether MakeWebGLCanvasSurface returns a surface
createProjectSurface(projectId, surfaceId, canvas, made) ==
  FinishProjects("createSurface",
    IF projects[projectId] # NoProject /\ projects[projectId].canvasKit /\ canvas /\ made
      THEN [projects EXCEPT ![projectId].surfaces = @ \cup {surfaceId}]
      ELSE projects,
    activeProjectId, heap)

\* deleteSurface(projectId, surfaceId): the surfaces Map it deletes from was
\* produced by immer; frozen says whether that Map rejects the mutation
deleteProjectSurface(projectId, surfaceId, frozen) ==
  /\ projects[projectId] # NoProject
  /\ surfaceId \in projects[projectId].surfaces
  /\ FinishProjects("deleteSurface",
       IF frozen THEN projects
       ELSE [projects EXCEPT ![projectId].surfaces = @ \ {surfaceId}],
       activeProjectId, heap)

updateProjectTransform(projectId, update) ==
  IF projects[projectId] = NoProject
    THEN FinishProjects("updateProjectTransform", projects, activeProjectId, heap)
    ELSE LET o == NewObject(projects)
         IN FinishProjects("updateProjectTransform",
              [projects EXCEPT ![projectId].transform = o],
              activeProjectId,
              [heap EXCEPT ![o] = Spread(heap[projects[projectId].transform], update)])

startPanningProject(projectId, x, y) ==
  IF projects[projectId] = NoProject
    THEN FinishProjects("startPanning", projects, activeProjectId, heap)
    ELSE LET c == startPanningRecipe(ProjectCanvas(projects, heap, projectId), x, y)
         IN FinishProjects("startPanning",
              [projects EXCEPT ![projectId].isPanning = c.isPanning,
                               ![projectId].lastPanPosition = c.lastPanPosition],
              activeProjectId, heap)

updatePanningProject(projectId, x, y) ==
  IF projects[projectId] = NoProject \/ ~projects[projectId].isPanning
    THEN FinishProjects("updatePanning", projects, activeProjectId, heap)
    ELSE LET c == updatePanningRecipe(ProjectCanvas(projects, heap, projectId), x, y)
             o == NewObject(projects)
         IN FinishProjects("updatePanning",
              [projects EXCEPT ![projectId].transform = o,
                               ![projectId].lastPanPosition = c.lastPanPosition],
              activeProjectId, [heap EXCEPT ![o] = c.transform])

stopPanningProject(projectId) ==
  IF projects[projectId] = NoProject
    THEN FinishProjects("stopPanning", projects, activeProjectId, heap)
    ELSE FinishProjects("stopPanning", [projects EXCEPT ![projectId].isPanning = FALSE],
                        activeProjectId, heap)

handleWheelProject(projectId, deltaY, isCtrlPressed, clientX, clientY) ==
  IF projects[projectId] = NoProject
    THEN FinishProjects("handleWheel", projects, activeProjectId, heap)
    ELSE LET c == handleWheelRecipe(ProjectCanvas(projects, heap, projectId),
                                    deltaY, isCtrlPressed, clientX, clientY)
             o == NewObject(projects)
         IN FinishProjects("handleWheel",
              [projects EXCEPT ![projectId].transform = o],
              activeProjectId, [heap EXCEPT ![o] = c.transform])

NextProjects ==
  \/ \E id \in ProjectIds : createProject(id, "project")
  \/ initializeProject
  \/ \E projectId \in ProjectIds : deleteProject(projectId)
  \/ cleanupProjects
  \/ \E projectId \in ProjectIds, canvas \in BOOLEAN, made \in BOOLEAN :
       createProjectSurface(projectId, "main", canvas, made)
  \/ \E projectId \in ProjectIds, frozen \in BOOLEAN :
       deleteProjectSurface(projectId, "main", frozen)
  \/ \E projectId \in ProjectIds, update \in ProjectTransforms :
       updateProjectTransform(projectId, update)
  \/ \E projectId \in ProjectIds, p \in ProjectPanPoints :
       startPanningProject(projectId, p[1], p[2])
  \/ \E projectId \in ProjectIds, p \in ProjectPanPoints :
       updatePanningProject(projectId, p[1], p[2])
  \/ \E projectId \in ProjectIds : stopPanningProject(projectId)
  \/ \E projectId \in ProjectIds, w \in ProjectWheels :
       handleWheelProject(projectId, w.deltaY, w.isCtrlPressed, 0, 0)

SpecProjects == Init /\ [][NextProjects]_vars

---------------------------------------------------------------------------
(* The surfaces of the single canvas store, src/src/store/canvasKitStore.ts *)

\* what document.getElementById and MakeWebGLCanvasSurface can do
SurfaceOutcomes == {"surface", "null", "throws"}

\* Surface.delete(): a live surface is released; deleting a released one throws
DeleteSurfaceObject(surfaces, id) ==
  IF surfaces[id] = "live"
    THEN [surfaces |-> [surfaces EXCEPT ![id] = "deleted"], threw |-> FALSE]
    ELSE [surfaces |-> surfaces, threw |-> surfaces[id] = "deleted"]

\* a call of the store returned value (or threw) and left inst and st behind
SurfaceResult(inst, st, value, threw) ==
  [instances |-> inst, state |-> st, value |-> value, threw |-> threw]

\* faulty variant: the body of createSurface runs without its try/catch
createSurfaceResult_Uncaught(inst, st, id, canvas, outcome) ==
  IF ~inst.canvasKit
    THEN SurfaceResult(inst, [st EXCEPT !.error = "CanvasKit not initialized"], "null", FALSE)
  ELSE IF ~canvas
    THEN SurfaceResult(inst, st, "none", TRUE)
  ELSE LET existing == DeleteSurfaceObject(inst.surfaces, id)
           cleared == [inst EXCEPT !.surfaces = existing.surfaces]
       IN IF existing.threw \/ outcome # "surface"
            THEN SurfaceResult(cleared, st, "none", TRUE)
            ELSE SurfaceResult(
                   [cleared EXCEPT !.surfaces[id] = "live", !.activeSurfaceId = id],
                   [st EXCEPT !.activeSurfaceId = IF @ = NoSurfaceId THEN id ELSE @],
                   "surface", FALSE)

\* createSurface(id, width, height), lines 86-131: canvas is whether the
\* element exists, outcome what MakeWebGLCanvasSurface does
createSurfaceResult(inst, st, id, canvas, outcome) ==
  IF ~inst.canvasKit
    THEN SurfaceResult(inst, [st EXCEPT !.error = "CanvasKit not initialized"], "null", FALSE)
  ELSE IF ~canvas
    THEN SurfaceResult(inst, [st EXCEPT !.error = "Canvas element not found"], "null", FALSE)
  ELSE LET existing == DeleteSurfaceObject(inst.surfaces, id)
           cleared == [inst EXCEPT !.surfaces = existing.surfaces]
       IN IF existing.threw
            THEN SurfaceResult(cleared, [st EXCEPT !.error = "BindingError"], "null", FALSE)
          ELSE IF outcome = "throws"
            THEN SurfaceResult(cleared, [st EXCEPT !.error = "engine error"], "null", FALSE)
          ELSE IF outcome = "null"
            THEN SurfaceResult(cleared, [st EXCEPT !.error = "Failed to create surface"],
                               "null", FALSE)
          ELSE SurfaceResult(
                 [cleared EXCEPT !.surfaces[id] = "live", !.activeSurfaceId = id],
                 [st EXCEPT !.activeSurfaceId = IF @ = NoSurfaceId THEN id ELSE @],
                 "surface", FALSE)

FinishSurface(op, r) ==
  /\ instances' = r.instances
  /\ canvasState' = r.state
  /\ lastOp' = op
  /\ returned' = [of |-> op, value |-> r.value, threw |-> r.threw]
  /\ UNCHANGED <<projects, activeProjectId, heap>>
  /\ UNCHANGED mockupVars
  /\ UNCHANGED imageVars
  /\ UNCHANGED canvasVars
  /\ UNCHANGED componentVars

initialize ==
  FinishSurface("initialize",
    SurfaceResult([instances EXCEPT !.canvasKit = TRUE],
                  [canvasState EXCEPT !.isInitialized = TRUE, !.error = "null"],
                  "none", FALSE))

createSurface(id, canvas, outcome) ==
  FinishSurface("createSurface",
                createSurfaceResult(instances, canvasState, id, canvas, outcome))

\* the surfaces the Map still holds
HeldSurfaces(surfaces) == {s \in SurfaceIds : surfaces[s] # "none"}

deleteSurface(id) ==
  LET deleted == DeleteSurfaceObject(instances.surfaces, id)
      removed == [deleted.surfaces EXCEPT ![id] = "none"]
  IN FinishSurface("deleteSurface",
       IF instances.surfaces[id] = "none"
         THEN SurfaceResult(instances, canvasState, "none", FALSE)
       ELSE IF deleted.threw
         THEN SurfaceResult(instances, canvasState, "none", TRUE)
       ELSE SurfaceResult(
              [instances EXCEPT
                 !.surfaces = removed,
                 !.activeSurfaceId =
                   IF @ # id THEN @
                   ELSE IF HeldSurfaces(removed) = {} THEN NoSurfaceId
                   ELSE CHOOSE s \in HeldSurfaces(removed) : TRUE],
              canvasState, "none", FALSE))

setActiveSurface(id) ==
  FinishSurface("setActiveSurface",
    SurfaceResult(
      IF instances.surfaces[id] # "none" THEN [instances EXCEPT !.activeSurfaceId = id]
      ELSE instances,
      canvasState, "none", FALSE))

\* cleanup(): the surfaces are deleted in the Map's order; first is the surface
\* that order starts with
cleanup(first) ==
  LET one == DeleteSurfaceObject(instances.surfaces, first)
      rest == CHOOSE s \in SurfaceIds : s # first
      two == DeleteSurfaceObject(one.surfaces, rest)
  IN FinishSurface("cleanup",
       IF one.threw
         THEN SurfaceResult(instances, canvasState, "none", TRUE)
       ELSE IF two.threw
         THEN SurfaceResult([instances EXCEPT !.surfaces = one.surfaces],
                            canvasState, "none", TRUE)
       ELSE SurfaceResult(InitInstances, canvasState, "none", FALSE))

\* resizeSurface(id): made is whether MakeWebGLCanvasSurface returns a surface
resizeSurface(id, made) ==
  LET deleted == DeleteSurfaceObject(instances.surfaces, id)
  IN FinishSurface("resizeSurface",
       IF instances.surfaces[id] = "none" \/ ~instances.canvasKit
         THEN SurfaceResult(instances, canvasState, "none", FALSE)
       ELSE IF deleted.threw
         THEN SurfaceResult(instances, canvasState, "none", TRUE)
       ELSE SurfaceResult(
              [instances EXCEPT !.surfaces =
                 IF made THEN [deleted.surfaces EXCEPT ![id] = "live"] ELSE deleted.surfaces],
              canvasState, "none", FALSE))

\* getActiveSurface(): the surface under instances.activeSurfaceId, as the
\* state that surface is in, or null
getActiveSurface ==
  FinishSurface("getActiveSurface",
    SurfaceResult(instances, canvasState,
      IF instances.activeSurfaceId = NoSurfaceId THEN "null"
      ELSE IF instances.surfaces[instances.activeSurfaceId] = "none" THEN "null"
      ELSE instances.surfaces[instances.activeSurfaceId],
      FALSE))

NextSurface ==
  \/ initialize
  \/ \E id \in SurfaceIds, canvas \in BOOLEAN, outcome \in SurfaceOutcomes :
       createSurface(id, canvas, outcome)
  \/ \E id \in SurfaceIds : deleteSurface(id)
  \/ \E id \in SurfaceIds : setActiveSurface(id)
  \/ \E first \in SurfaceIds : cleanup(first)
  \/ \E id \in SurfaceIds, made \in BOOLEAN : resizeSurface(id, made)
  \/ getActiveSurface

SpecSurface == Init /\ [][NextSurface]_vars

---------------------------------------------------------------------------
(* The mockup store, src/unnamed/part_001 *)

\* the mockup store now holds m and the calls are as in l
FinishMockup(op, m, l) ==
  /\ mockup' = m
  /\ loads' = l
  /\ lastOp' = op
  /\ UNCHANGED returned
  /\ UNCHANGED imageVars
  /\ UNCHANGED canvasVars
  /\ UNCHANGED componentVars
  /\ UNCHANGED engineVars

\* loadMockupById(imageId, canvasKit) up to its first await: setLoading(true),
\* setError(null), the lookup in localStorage; an id without entry throws at
\* once, and catch and finally run before the call returns
startLoadMockup(c, imageId) ==
  /\ loads[c].status # "fetching"
  /\ IF imageId \in StoredMockups
       THEN FinishMockup("loadMockupById",
              [mockup EXCEPT !.isLoading = TRUE, !.error = "null"],
              [loads EXCEPT ![c] = [status |-> "fetching", imageId |-> imageId]])
       ELSE FinishMockup("loadMockupById",
              [mockup EXCEPT !.isLoading = FALSE, !.error = "not found"],
              [loads EXCEPT ![c] = [status |-> "failed", imageId |-> imageId]])

\* the continuation of call c after Promise.all: ok is whether every image
\* was fetched and decoded
settleLoadMockup(c, ok) ==
  /\ loads[c].status = "fetching"
  /\ IF ok
       THEN FinishMockup("loadMockupById",
              [mockup EXCEPT !.currentMockup = loads[c].imageId, !.isLoading = FALSE],
              [loads EXCEPT ![c].status = "loaded"])
       ELSE FinishMockup("loadMockupById",
              [mockup EXCEPT !.error = "Failed to load image", !.isLoading = FALSE],
              [loads EXCEPT ![c].status = "failed"])

\* The mockup store under calls of loadMockupById that overlap in time.
NextMockup ==
  \/ \E c \in MockupCalls, imageId \in MockupIds : startLoadMockup(c, imageId)
  \/ \E c \in MockupCalls, ok \in BOOLEAN : settleLoadMockup(c, ok)

SpecMockup == Init /\ [][NextMockup]_vars

---------------------------------------------------------------------------
(* The pointer handlers of the canvas element: pages/Skia.tsx and the two
   revisions of components/SkiaCanvas.tsx *)

\* "Skia" is the page, "SkiaCanvas" the component that moves the layer
\* inside handleMouseMove, "SkiaCanvasRAF" the component that hands the move
\* to requestAnimationFrame.
Components == {"Skia", "SkiaCanvas", "SkiaCanvasRAF"}
\* MouseEvent.button: 0 is the main button, 1 the middle one
Buttons == {0, 1}
\* MouseEvent.clientX, clientY
PointerPoints == {<<1, 1>>, <<5, 5>>}
\* canvasRef.current.getBoundingClientRect()
CanvasRect == [left |-> 0, top |-> 0]
\* callbacks waiting for the next animation frame
MaxPending == 2

\* (client - origin - offset) / scale
Adjusted(client, origin, offset, scale) ==
  FracDiv(FracSub(FromInt(client - origin), offset), scale)

\* the callbacks of one animation frame, in the order they were requested:
\* each reads dragState.current when it runs and throws when that is null
RECURSIVE RunFrameCallbacks(_, _, _)
RunFrameCallbacks(s, ref, callbacks) ==
  IF callbacks = <<>> THEN s
  ELSE LET cb == Head(callbacks)
           after == IF ref.isDragging
                      THEN setState(s, updateImageContentRecipe(s, ref.imageId,
                             [x |-> cb.adjustedX - ref.startX,
                              y |-> cb.adjustedY - ref.startY]))
                      ELSE s
       IN RunFrameCallbacks(after, ref, Tail(callbacks))

\* a handler returns: the image store holds s, the canvas store c, the ref
\* holds ref and callbacks wait for the next frame
FinishPointer(op, s, f, c, origin, ref, callbacks) ==
  /\ \A i \in 1..Len(s.images) :
       s.images[i].x \in 0..MaxCoord /\ s.images[i].y \in 0..MaxCoord
  /\ InView(c.transform)
  /\ Commit(s)
  /\ transform' = c.transform
  /\ isPanning' = c.isPanning
  /\ lastPanPosition' = c.lastPanPosition
  /\ panOrigin' = origin
  /\ dragRef' = ref
  /\ pending' = callbacks
  /\ UNCHANGED <<mounted, released, closure, imageDB>>
  /\ UNCHANGED engineVars
  /\ UNCHANGED mockupVars
  /\ lastOp' = op
  /\ fired' = f
  /\ lastApply' = NoApply
  /\ returned' = NoReturn

handleMouseDown(button, clientX, clientY) ==
  LET rect == CanvasRect
      adjustedX == Adjusted(clientX, rect.left, transform.x, transform.scale)
      adjustedY == Adjusted(clientY, rect.top, transform.y, transform.scale)
      x == adjustedX[1]
      y == adjustedY[1]
  IN IF button = 1
       THEN FinishPointer("handleMouseDown", Store, NoCallback,
                          startPanningRecipe(CanvasStore, clientX, clientY),
                          [active |-> TRUE,
                           x |-> FracSub(transform.x, FromInt(clientX)),
                           y |-> FracSub(transform.y, FromInt(clientY)),
                           scale |-> transform.scale],
                          dragRef, pending)
     ELSE /\ adjustedX[2] = 1 /\ adjustedY[2] = 1
          /\ IF mounted = "Skia"
               THEN LET hit == ClickTarget(Store, x, y, rect) # 0
                        clicked == handleImageClickResult(Store, x, y, rect)
                    IN FinishPointer("handleMouseDown",
                         IF hit THEN startDraggingResult(clicked, x, y, rect)
                                ELSE setState(clicked, clearSelectionRecipe(clicked)),
                         NoCallback, CanvasStore, panOrigin, dragRef, pending)
               ELSE LET i == TopImageAtPoint(Store, x, y)
                    IN FinishPointer("handleMouseDown",
                         IF i # 0 THEN Store
                                  ELSE setState(Store, clearSelectionRecipe(Store)),
                         NoCallback, CanvasStore, panOrigin,
                         IF i # 0 THEN [isDragging |-> TRUE,
                                        startX |-> x - images[i].x,
                                        startY |-> y - images[i].y,
                                        imageId |-> images[i].id]
                                  ELSE dragRef,
                         pending)

handleMouseMove(clientX, clientY) ==
  LET rect == CanvasRect
      adjustedX == Adjusted(clientX, rect.left, transform.x, transform.scale)
      adjustedY == Adjusted(clientY, rect.top, transform.y, transform.scale)
      x == adjustedX[1]
      y == adjustedY[1]
  IN IF isPanning
       THEN FinishPointer("handleMouseMove", Store, NoCallback,
                          updatePanningRecipe(CanvasStore, clientX, clientY),
                          panOrigin, dragRef, pending)
     ELSE /\ adjustedX[2] = 1 /\ adjustedY[2] = 1
          /\ IF mounted = "Skia"
               THEN LET result == handleDragResult(Store, x, y, rect)
                        returns == ~dragState.isDragging \/ selectedImage = Null
                    IN FinishPointer("handleMouseMove",
                         IF returns THEN Store ELSE result.store,
                         IF returns THEN NoCallback ELSE result.fired,
                         CanvasStore, panOrigin, dragRef, pending)
             ELSE IF ~dragRef.isDragging
               THEN FinishPointer("handleMouseMove", Store, NoCallback,
                                  CanvasStore, panOrigin, dragRef, pending)
             ELSE IF mounted = "SkiaCanvas"
               THEN LET moved == setState(Store,
                                   updateImageContentRecipe(Store, dragRef.imageId,
                                     [x |-> x - dragRef.startX, y |-> y - dragRef.startY]))
                        started == startDraggingResult(moved, x, y, rect)
                        result == handleDragResult(started, x, y, rect)
                        returns == ~started.dragState.isDragging
                                     \/ started.selectedImage = Null
                    IN FinishPointer("handleMouseMove",
                         IF returns THEN started ELSE result.store,
                         IF returns THEN NoCallback ELSE result.fired,
                         CanvasStore, panOrigin, dragRef, pending)
             ELSE /\ Len(pending) < MaxPending
                  /\ FinishPointer("handleMouseMove", Store, NoCallback,
                                   CanvasStore, panOrigin, dragRef,
                                   Append(pending, [adjustedX |-> x, adjustedY |-> y]))

\* faulty variant: the release ends the drag and leaves the pan running
MouseUp_KeepsPan(op) ==
  FinishPointer(op,
                IF mounted = "SkiaCanvasRAF" THEN Store
                ELSE setState(Store, stopDraggingRecipe(Store)),
                NoCallback, CanvasStore, panOrigin,
                IF mounted = "Skia" THEN dragRef ELSE NoDragRef,
                pending)

\* handleMouseUp, which is also the element's onMouseLeave
MouseUp(op) ==
  FinishPointer(op,
                IF mounted = "SkiaCanvasRAF" THEN Store
                ELSE setState(Store, stopDraggingRecipe(Store)),
                NoCallback, stopPanningRecipe(CanvasStore), NoPan,
                IF mounted = "Skia" THEN dragRef ELSE NoDragRef,
                pending)

handleMouseUp == MouseUp("handleMouseUp")

onMouseLeave == MouseUp("onMouseLeave")

\* the browser runs the callbacks handed to requestAnimationFrame
animationFrame ==
  /\ pending # <<>>
  /\ FinishPointer("animationFrame", RunFrameCallbacks(Store, dragRef, pending),
                   NoCallback, CanvasStore, panOrigin, dragRef, <<>>)

\* One of the components is mounted over two layers added by addImage, a
\* 4x4 one below a 2x2 one, with the overlap callbacks the component
\* registers on mount.
InitPointer ==
  /\ images = <<Layer(1, 2, 0, 0, 1), Layer(2, 1, 0, 0, 1)>>
  /\ selectedImage = Layer(2, 1, 0, 0, 1)
  /\ dragState = InitDragState
  /\ displacementState = NoDisplacement
  /\ isOverlapping = FALSE
  /\ mounted \in Components
  /\ handlers = CASE mounted = "Skia" -> "noop"
                  [] mounted = "SkiaCanvas" -> "canvas"
                  [] OTHER -> "unset"
  /\ fired = NoCallback
  /\ lastOp = "init"
  /\ lastApply = NoApply
  /\ transform = InitTransform
  /\ isPanning = FALSE
  /\ lastPanPosition = InitPanPosition
  /\ panOrigin = NoPan
  /\ dragRef = NoDragRef
  /\ pending = <<>>
  /\ returned = NoReturn
  /\ released = NoneReleased
  /\ closure = <<>>
  /\ imageDB = {}
  /\ projects = [p \in ProjectIds |-> NoProject]
  /\ activeProjectId = NoProjectId
  /\ heap = EmptyHeap
  /\ instances = InitInstances
  /\ canvasState = InitCanvasState
  /\ mockup = InitMockup
  /\ loads = [c \in MockupCalls |-> NoLoad]

NextPointer ==
  \/ \E button \in Buttons, p \in PointerPoints : handleMouseDown(button, p[1], p[2])
  \/ \E p \in PointerPoints : handleMouseMove(p[1], p[2])
  \/ handleMouseUp
  \/ onMouseLeave
  \/ animationFrame

SpecPointer == InitPointer /\ [][NextPointer]_vars

---------------------------------------------------------------------------
(* Properties *)

\* the slices of the store a method can change
storeVars ==
  <<images, selectedImage, dragState, displacementState, isOverlapping, handlers>>

\* C1: under every sequence of the store's layer, selection, drag and
\* displacement methods, selectedImage is null or has the id of a layer that
\* is a member of images.
C1_SelectionIsMember ==
  selectedImage = Null \/ \E i \in 1..Len(images) : images[i].id = selectedImage.id

\* a deletion has run, one layer is left and it is still the selected one
C1_Witness ==
  /\ lastOp = "deleteImage"
  /\ Len(images) = 1
  /\ selectedImage # Null
  /\ images[1].id = selectedImage.id

\* the overlap predicate p at the selected layer's position: some other layer
\* contains its centre and is large enough
Overlaps == OverlapTarget(Store, selectedImage) # 0

C3_StopResetsOverlap ==
  [][lastOp' = "stopDragging" /\ dragState.isDragging /\ isOverlapping =>
       ~isOverlapping' /\ fired'.cb = "none"]_vars

\* a drop: stopDragging has run and the store still says OVERLAPPING
C3_Witness ==
  lastOp = "stopDragging" /\ ~dragState.isDragging /\ isOverlapping

\* C4: after clearAllImages, from every state, images is empty, selectedImage
\* is null, isOverlapping is false and displacementState is all null.
C4_ClearAllResets ==
  lastOp = "clearAllImages" =>
    /\ images = <<>>
    /\ selectedImage = Null
    /\ ~isOverlapping
    /\ displacementState = NoDisplacement

\* clearAllImages has run and a mask is still set
C4_Witness ==
  lastOp = "clearAllImages" /\ displacementState.maskImage # NoImage

\* C5: on every path of the displacement compositor that was entered (it
\* returned or it threw), every intermediate resource it allocated has been
\* released.
C5_CompositorReleasesAll ==
  lastApply.outcome \in {"ok", "threw"} => lastApply.leaked = {}

\* the compositor returned normally and the compiled effect is still live
C5_Witness ==
  lastApply.outcome = "ok" /\ "runtimeEffect" \in lastApply.leaked

\* C6: after applyDisplacement's success path the store holds the derived
\* layer at the end of images, holds no temporary displacement-map layer and
\* has displacementState reset to all null.
C6_ApplySuccess ==
  lastApply.outcome = "ok" =>
    /\ images # <<>>
    /\ images[Len(images)].name = "displaced"
    /\ \A i \in 1..Len(images) : images[i].name # "displacement-map-temp"
    /\ displacementState = NoDisplacement

\* applyDisplacement succeeded and the store still holds the displacement
C6_Witness ==
  /\ lastApply.outcome = "ok"
  /\ images[Len(images)].name = "displaced"
  /\ displacementState.dispImage # NoImage

\* number of layers that are not the temporary preview layer
NonTemporary(imgs) ==
  Cardinality({i \in 1..Len(imgs) : imgs[i].name # "displacement-map-temp"})

\* C7: cancelDisplacement, called with a displacement in progress, removes the
\* temporary preview layer, resets displacementState to all null and leaves
\* the number of non-temporary layers unchanged.
C7_CancelRemovesOnlyTemp ==
  [][lastOp' = "cancelDisplacement" /\ displacementState.dispImage # NoImage =>
       /\ displacementState' = NoDisplacement
       /\ \A i \in 1..Len(images') : images'[i].name # "displacement-map-temp"
       /\ NonTemporary(images') = NonTemporary(images)]_vars

\* C8: a displacement is active (dispImage is non-null) if and only if images
\* contains a layer whose image handle is dispImage.
C8_ActiveIffPreviewLayer ==
  (displacementState.dispImage # NoImage)
    <=> \E i \in 1..Len(images) : images[i].image = displacementState.dispImage

\* startDisplacement has run and no layer holds the displacement map
C8_Witness ==
  /\ lastOp = "startDisplacement"
  /\ displacementState.dispImage # NoImage
  /\ ~\E i \in 1..Len(images) : images[i].image = displacementState.dispImage

\* sourceId is null, dispImage is null, or no layer has id sourceId
C9_Missing ==
  \/ displacementState.sourceId = NoId
  \/ displacementState.dispImage = NoImage
  \/ ~\E i \in 1..Len(images) : images[i].id = displacementState.sourceId

\* C9: applyDisplacement is a no-op when sourceId is null, dispImage is null
\* or no layer with id sourceId is in images: the store state is unchanged,
\* and neither the temporary surface nor any other resource is allocated.
C9_MissingInputNoOp ==
  [][lastOp' = "applyDisplacement" /\ C9_Missing =>
       /\ UNCHANGED storeVars
       /\ lastApply' = Account("noop", FALSE, "none", {})]_vars

\* applyDisplacement returned early although a displacement map is set and a
\* layer holds it: the layer with id sourceId is the one that is missing
C9_Witness ==
  /\ lastOp = "applyDisplacement"
  /\ lastApply.outcome = "noop"
  /\ displacementState.sourceId # NoId
  /\ displacementState.dispImage # NoImage
  /\ \E i \in 1..Len(images) : images[i].image = displacementState.dispImage
  /\ ~\E i \in 1..Len(images) : images[i].id = displacementState.sourceId

\* C10: when the shader fails to compile during applyDisplacement, no layer
\* is appended, the store state is as before the call, and every resource
\* allocated so far, the surface made by MakeSurface included, is released.
C10_CompileFailureReleasesAll ==
  [][lastOp' = "applyDisplacement" /\ lastApply'.threwAt = "runtimeEffect" =>
       /\ UNCHANGED storeVars
       /\ ~lastApply'.tempSurfaceLive
       /\ lastApply'.leaked = {}]_vars

\* the shader failed to compile and the surface made by MakeSurface is live
C10_Witness ==
  /\ lastOp = "applyDisplacement"
  /\ lastApply.threwAt = "runtimeEffect"
  /\ lastApply.tempSurfaceLive

\* C16: after every event of any sequence of wheel events, interleaved with
\* pan operations, 0.1 <= transform.scale <= 10.
C16_ScaleClamped ==
  /\ ~FracLess(transform.scale, Frac(1, 10))
  /\ ~FracLess(FromInt(10), transform.scale)

\* a wheel event pushed the scale against the lower limit while the canvas
\* was panned away from the origin
C16_Witness ==
  /\ lastOp = "handleWheel"
  /\ transform.scale = Frac(1, 10)
  /\ transform.x # FromInt(0)

\* screenToContent: the content point under the screen point p
ContentPoint(p, tr) ==
  <<FracDiv(FracSub(FromInt(p[1]), tr.x), tr.scale),
    FracDiv(FracSub(FromInt(p[2]), tr.y), tr.scale)>>

\* C17: a wheel event with the precision modifier held at screen point p
\* leaves the content point under p where it was, also when the new scale
\* was clamped, and leaves the position alone when the scale did not change.
C17_ZoomAboutPoint ==
  [][\A deltaY \in WheelDeltas, p \in PanPoints :
       handleWheel(deltaY, TRUE, p[1], p[2]) =>
         /\ ContentPoint(p, transform') = ContentPoint(p, transform)
         /\ (transform'.scale = transform.scale => transform' = transform)]_vars

\* a zoom that was clamped at the upper limit moved the canvas
C17_Witness ==
  /\ lastOp = "handleWheel"
  /\ transform.scale = FromInt(10)
  /\ transform.x # FromInt(0)
  /\ transform.x # transform.y

\* C18: after startPanning(x0, y0) and any sequence of updatePanning calls
\* ending at (xn, yn), transform.x and transform.y are their values at
\* startPanning plus (xn - x0) and (yn - y0) and the scale is unchanged; an
\* updatePanning while isPanning is false changes nothing.
C18_PanFollowsPointer ==
  [][/\ panOrigin'.active =>
          /\ transform'.x = FracAdd(panOrigin'.x, FromInt(lastPanPosition'.x))
          /\ transform'.y = FracAdd(panOrigin'.y, FromInt(lastPanPosition'.y))
          /\ transform'.scale = panOrigin'.scale
     /\ lastOp' = "updatePanning" /\ ~isPanning =>
          UNCHANGED <<transform, isPanning, lastPanPosition>>]_vars

\* a pan of a zoomed canvas, two moves after its start
C18_Witness ==
  /\ lastOp = "updatePanning"
  /\ panOrigin.active
  /\ transform.scale # FromInt(1)
  /\ transform.x = FracAdd(panOrigin.x, FromInt(2))
  /\ panOrigin.x # FromInt(0)

\* the layers that have an image and whose inclusive box
\* [x, x + width * scale] x [y, y + height * scale] contains (px, py)
C19_Hits(px, py) ==
  {i \in 1..Len(images) :
     /\ images[i].image # NoImage
     /\ images[i].x <= px /\ px <= images[i].x + Width(images[i].image) * images[i].scale
     /\ images[i].y <= py /\ py <= images[i].y + Height(images[i].image) * images[i].scale}

\* C19: findTopImageAtPoint(x, y) returns the layer with the greatest index
\* whose inclusive box contains the point, and undefined when no layer
\* contains it.
C19_TopmostWins ==
  returned.of = "findTopImageAtPoint" =>
    LET hits == C19_Hits(returned.x, returned.y)
    IN IF hits = {} THEN returned.value = Null
       ELSE \E i \in hits : returned.value = images[i] /\ \A j \in hits : j <= i

\* both layers contain the point and the later one was returned
C19_Witness ==
  /\ returned.of = "findTopImageAtPoint"
  /\ C19_Hits(returned.x, returned.y) = {1, 2}
  /\ returned.value = images[2]

\* top's scaled centre lies in bottom's scaled bounds, borders included, and
\* the ratio of the scaled areas is strictly below 7/10
C20_Predicate(top, bottom) ==
  LET centreX == FracAdd(FromInt(top.x), Frac(Width(top.image) * top.scale, 2))
      centreY == FracAdd(FromInt(top.y), Frac(Height(top.image) * top.scale, 2))
      right == FromInt(bottom.x + Width(bottom.image) * bottom.scale)
      below == FromInt(bottom.y + Height(bottom.image) * bottom.scale)
      ratio == Frac(Width(top.image) * Height(top.image) * top.scale * top.scale,
                    Width(bottom.image) * Height(bottom.image) * bottom.scale * bottom.scale)
  IN /\ ~FracLess(centreX, FromInt(bottom.x)) /\ ~FracLess(right, centreX)
     /\ ~FracLess(centreY, FromInt(bottom.y)) /\ ~FracLess(below, centreY)
     /\ FracLess(ratio, Frac(7, 10))

\* C20: checkOverlap(top, bottom) and checkSizeRatio(top, bottom) both hold
\* if and only if top's scaled centre lies inside bottom's scaled bounds,
\* borders included, and the ratio of the scaled areas is strictly less than
\* 0.7.
C20_OverlapPredicate ==
  returned.of = "checkOverlapAndSizeRatio" =>
    (returned.value <=> C20_Predicate(images[returned.top], images[returned.bottom]))

\* a 7x1 layer whose centre lies in a 10x1 layer: the ratio is exactly 0.7
\* and the test fails
C20_Witness ==
  /\ returned.of = "checkOverlapAndSizeRatio"
  /\ images[returned.top].image = 3 /\ images[returned.top].scale = 1
  /\ images[returned.bottom].image = 4 /\ images[returned.bottom].scale = 1
  /\ checkOverlap(images[returned.top], images[returned.bottom])
  /\ ~returned.value

C13_AddImageKeepsDrag ==
  [][(lastOp = "addImage" /\ dragState.isDragging /\ lastOp' = "handleDrag") =>
       /\ Len(images') = Len(images)
       /\ images'[Len(images)].x = images[Len(images)].x
       /\ images'[Len(images)].y = images[Len(images)].y]_vars

\* a layer was added while a drag of another layer was active
C13_Witness ==
  /\ lastOp = "addImage"
  /\ dragState.isDragging
  /\ Len(images) = 2
  /\ selectedImage # Null /\ selectedImage.id = images[2].id

\* the handlers of the canvas element's pointer events
PointerEvents == {"handleMouseDown", "handleMouseMove", "handleMouseUp", "onMouseLeave"}

\* C11: under any sequence of pointer-down (with any button), pointer-move,
\* pointer-up and pointer-leave events, pan mode (isPanning) and drag mode
\* (isDragging of the store's drag state or of the component's) are never
\* both active.
C11_PanDragExclusive ==
  ~(isPanning /\ (dragState.isDragging \/ dragRef.isDragging))

\* the page has a pan and a store drag running together
C11_Witness ==
  /\ mounted = "Skia"
  /\ lastOp = "handleMouseDown"
  /\ isPanning
  /\ dragState.isDragging
  /\ selectedImage # Null

\* C14: in SkiaCanvas the position update caused by a move is applied to the
\* store before the next pointer event (move, up or leave) is handled: no
\* pointer event is handled while an update scheduled by an earlier move is
\* still waiting, so none waits or runs after the pointer-up that cleared
\* the drag state.
C14_UpdateAppliedAtOnce ==
  [][lastOp' \in PointerEvents => pending = <<>>]_vars

\* the scheduled updates ran after the release had cleared dragState.current
C14_Witness ==
  /\ mounted = "SkiaCanvasRAF"
  /\ lastOp = "animationFrame"
  /\ ~dragRef.isDragging
  /\ ~isPanning

\* neither a pan nor a drag is running
C15_Idle == ~isPanning /\ ~dragRef.isDragging /\ ~dragState.isDragging

\* id and position of every layer
C15_Positions(imgs) == [i \in 1..Len(imgs) |-> <<imgs[i].id, imgs[i].x, imgs[i].y>>]

\* C15: a pointer-leave ends the gesture as a pointer-up does: after either
\* neither pan nor drag is active, and while that is so (until the next
\* pointer-down) no pointer-move, and no update a move had scheduled,
\* changes the canvas transform or the position of any layer.
C15_LeaveEndsGesture ==
  [][/\ lastOp' \in {"handleMouseUp", "onMouseLeave"} => C15_Idle'
     /\ (C15_Idle /\ lastOp' \in {"handleMouseMove", "animationFrame"}) =>
          /\ C15_Idle'
          /\ transform' = transform
          /\ C15_Positions(images') = C15_Positions(images)]_vars

\* the pointer left the canvas after a layer had been dragged and the
\* canvas panned
C15_Witness ==
  /\ lastOp = "onMouseLeave"
  /\ C15_Idle
  /\ transform # InitTransform
  /\ \E i \in 1..Len(images) : images[i].x # 0

\* the layers other than the one with id dragging that pass the overlap
\* predicate against it, by index
C21_Candidates(dragging) ==
  {j \in 1..Len(images) :
     /\ images[j].id # dragging
     /\ \E d \in 1..Len(images) :
          /\ images[d].id = dragging
          /\ checkOverlap(images[d], images[j])
          /\ checkSizeRatio(images[d], images[j])}

\* C21: the target handed to onEnterOverlap / onDragInOverlap by a handleDrag
\* move is the layer of greatest index, other than the dragged layer, that
\* passes the overlap predicate against the dragged layer at its new
\* position; it is never the dragged layer.
C21_TopmostTarget ==
  (lastOp = "handleDrag" /\ fired.cb \in {"enter", "dragIn"}) =>
    /\ fired.target # fired.dragging
    /\ C21_Candidates(fired.dragging) # {}
    /\ \E j \in C21_Candidates(fired.dragging) :
         /\ images[j].id = fired.target
         /\ \A i \in C21_Candidates(fired.dragging) : i <= j

\* the bottom layer was dragged under two layers that both pass, and the
\* upper one was reported
C21_Witness ==
  /\ lastOp = "handleDrag"
  /\ fired.cb \in {"enter", "dragIn"}
  /\ fired.dragging = images[1].id
  /\ C21_Candidates(fired.dragging) = {2, 3}
  /\ fired.target = images[3].id

\* the ids of the layers held
C22_LayerIds == {images[i].id : i \in 1..Len(images)}

\* C22: updateImageContent, deleteImage and selectImage called with an id
\* that no layer of images has change nothing: images, selectedImage and
\* the rest of the store are as before.
C22_UnknownIdNoOp ==
  [][\A id \in Ids \ C22_LayerIds :
       (\/ selectImage(id)
        \/ deleteImage(id)
        \/ \E updates \in Updates : updateImageContent(id, updates))
       => UNCHANGED storeVars]_vars

\* selectImage with an unknown id left the store without selection
C22_Witness ==
  /\ lastOp = "selectImage"
  /\ images # <<>>
  /\ selectedImage = Null

\* C23: deleteImage(id) removes the layer whose id is id and no other, keeps
\* the other layers, their attributes and their order, sets selectedImage
\* to null when the selected layer's id is id and leaves it alone otherwise.
C23_DeleteFrame ==
  [][\A id \in Ids :
       deleteImage(id) =>
         LET kept == {i \in 1..Len(images) : images[i].id # id}
         IN /\ Len(images') = Cardinality(kept)
            /\ Len(images) - Len(images') = IF id \in C22_LayerIds THEN 1 ELSE 0
            /\ \A i \in kept :
                 images'[Cardinality({j \in kept : j <= i})] = images[i]
            /\ selectedImage' = IF selectedImage.id = id THEN Null ELSE selectedImage]_vars

\* the lower of two layers was deleted while the upper one was selected
C23_Witness ==
  /\ lastOp = "deleteImage"
  /\ Len(images) = 1
  /\ selectedImage # Null
  /\ selectedImage = images[1]
  /\ images[1].id > 1

\* C24: addImage(image, name) appends one layer at the end of images with
\* x = 0, y = 0, scale = 1, rotation = 0, opacity = 1 and blend mode SrcOver,
\* selects it, and leaves the layers held before and their order unchanged.
C24_AddAppendsDefault ==
  [][\A image \in InputImages :
       addImage(image, "user") =>
         /\ Len(images') = Len(images) + 1
         /\ SubSeq(images', 1, Len(images)) = images
         /\ LET new == images'[Len(images')]
            IN /\ new.image = image /\ new.name = "user"
               /\ new.x = 0 /\ new.y = 0 /\ new.scale = 1
               /\ new.rotation = 0 /\ new.opacity = 1 /\ new.blendMode = "SrcOver"
               /\ new.id \notin C22_LayerIds
               /\ selectedImage' = new]_vars

\* a second layer was added above a first one
C24_Witness ==
  /\ lastOp = "addImage"
  /\ Len(images) = 2
  /\ selectedImage = images[2]
  /\ images[1].id # images[2].id

\* C25: updateImageContent(id, updates) for the id of a layer changes the
\* fields named in updates on that layer and nothing else, leaves the other
\* layers and the order unchanged, and when that layer is the selected one
\* selectedImage is the updated layer.
C25_UpdateFrame ==
  [][\A id \in C22_LayerIds, updates \in DragUpdates :
       updateImageContent(id, updates) =>
         /\ Len(images') = Len(images)
         /\ \A i \in 1..Len(images) :
              IF images[i].id = id
                THEN /\ \A k \in DOMAIN images[i] :
                          images'[i][k] = IF k \in DOMAIN updates THEN updates[k]
                                          ELSE images[i][k]
                     /\ selectedImage.id = id => selectedImage' = images'[i]
                ELSE images'[i] = images[i]
         /\ selectedImage.id # id => selectedImage' = selectedImage]_vars

\* the selected one of two layers was given another blend mode
C25_Witness ==
  /\ lastOp = "updateImageContent"
  /\ Len(images) = 2
  /\ selectedImage = images[1]
  /\ images[1].blendMode = "Multiply"
  /\ images[2].blendMode = "SrcOver"

\* the Image objects held by the layers
C26_Held(imgs) == {imgs[i].image : i \in 1..Len(imgs)} \ {NoImage}

\* C26: a layer destroyed by deleteImage or clearAllImages has its image
\* handle released (image.delete()) exactly once: the step that removes the
\* last layer holding a handle leaves it released once, and no handle is
\* ever released twice, component unmount included.
C26_ReleasedExactlyOnce ==
  [][/\ \A h \in C26_Held(images) \ C26_Held(images') : released'[h] = 1
     /\ \A h \in Handles : released'[h] <= 1]_vars

\* a layer was destroyed and its handle was never released
C26_Witness ==
  /\ lastOp \in {"deleteImage", "clearAllImages"}
  /\ images = <<>>
  /\ \E h \in InputImages : released[h] = 0
  /\ \E h \in InputImages : released[h] = 2

\* C27: the render pass never draws a layer whose image handle has been
\* released, also after the canvas was unmounted and mounted again.
C27_NoDrawAfterRelease ==
  returned.of = "drawImages" =>
    \A i \in 1..Len(returned.drawn) : released[returned.drawn[i]] = 0

\* the remounted canvas drew a layer whose handle the cleanup had released
C27_Witness ==
  /\ returned.of = "drawImages"
  /\ mounted = "SkiaCanvas"
  /\ Len(images) = 1
  /\ returned.drawn = <<images[1].image>>
  /\ released[images[1].image] = 1

\* C28: when writing the uploaded bytes to the byte store fails, the upload
\* operation is given the error, and the image that was decoded from those
\* bytes still becomes a layer of the image store.
C28_SaveFailureKeepsLayer ==
  [][\A image \in InputImages, saveOutcome \in SaveOutcomes \ {"ok"} :
       handleFileUpload(image, saveOutcome) =>
         /\ returned'.caught
         /\ Len(images') = Len(images) + 1
         /\ images'[Len(images')].image = image]_vars

\* an upload whose write failed ended with the error caught and no layer
C28_Witness ==
  /\ returned.of = "handleFileUpload"
  /\ returned.image \in InputImages
  /\ returned.save = "put"
  /\ returned.caught
  /\ images = <<>>
  /\ returned.image \notin imageDB

\* a project as callers see it: its fields, the transform by value
C29_Value(ps, hp, p) ==
  IF ps[p] = NoProject THEN NoProject
  ELSE [ps[p] EXCEPT !.transform = hp[ps[p].transform]]

\* one of the calls the claim names is made on project p
C29_CallOn(p) ==
  \/ \E q \in ProjectPanPoints : startPanningProject(p, q[1], q[2])
  \/ \E q \in ProjectPanPoints : updatePanningProject(p, q[1], q[2])
  \/ stopPanningProject(p)
  \/ \E w \in ProjectWheels : handleWheelProject(p, w.deltaY, w.isCtrlPressed, 0, 0)
  \/ \E update \in ProjectTransforms : updateProjectTransform(p, update)
  \/ \E canvas \in BOOLEAN, made \in BOOLEAN : createProjectSurface(p, "main", canvas, made)
  \/ \E frozen \in BOOLEAN : deleteProjectSurface(p, "main", frozen)

\* C29: in the per-project store a pan, wheel, transform or surface call on
\* one project leaves the transform, isPanning, lastPanPosition and surfaces
\* of every other project unchanged, and no two projects refer to the same
\* transform object.
C29_ProjectsIndependent ==
  [][/\ \A p \in ProjectIds :
          C29_CallOn(p) =>
            \A q \in ProjectIds \ {p} :
              C29_Value(projects', heap', q) = C29_Value(projects, heap, q)
     /\ \A p \in Existing(projects'), q \in Existing(projects') :
          p # q => projects'[p].transform # projects'[q].transform]_vars

\* project P was panned and zoomed while project Q, untouched, has a surface
C29_Witness ==
  /\ Existing(projects) = ProjectIds
  /\ heap[projects["P"].transform] # InitTransform
  /\ heap[projects["Q"].transform] = InitTransform
  /\ projects["Q"].surfaces = {"main"}
  /\ projects["P"].isPanning /\ ~projects["Q"].isPanning

\* the call createSurface(id, ...) cannot produce a surface
C30_Fails(id, canvas, outcome) ==
  \/ ~instances.canvasKit
  \/ ~canvas
  \/ outcome # "surface"
  \/ instances.surfaces[id] = "deleted"

\* C30: createSurface never throws; when the engine is not initialized, the
\* canvas element is missing or the surface cannot be created it returns
\* null, records the failure in the store's error field and leaves the
\* active surface id as it was.
C30_CreateSurfaceFailsQuietly ==
  [][\A id \in SurfaceIds, canvas \in BOOLEAN, outcome \in SurfaceOutcomes :
       createSurface(id, canvas, outcome) =>
         /\ ~returned'.threw
         /\ C30_Fails(id, canvas, outcome) =>
              /\ returned'.value = "null"
              /\ canvasState'.error # "null"
              /\ ~instances.canvasKit => canvasState'.error = "CanvasKit not initialized"
              /\ canvasState'.activeSurfaceId = canvasState.activeSurfaceId
              /\ instances'.activeSurfaceId = instances.activeSurfaceId]_vars

\* a surface was active, and creating it again failed inside the engine
C30_Witness ==
  /\ returned = [of |-> "createSurface", value |-> "null", threw |-> FALSE]
  /\ canvasState.error = "Failed to create surface"
  /\ canvasState.activeSurfaceId = "main"
  /\ instances.activeSurfaceId = "main"
  /\ instances.surfaces["main"] = "deleted"

\* C31: isOverlapping changes only in a handleDrag step taken while a drag
\* is active, or when clearAllImages resets it to false; no other store
\* action changes it.
C31_OverlapFlagOwners ==
  [][isOverlapping' # isOverlapping =>
       \/ /\ dragState.isDragging
          /\ \E p \in DragPoints, rect \in Rects : handleDrag(p[1], p[2], rect)
       \/ clearAllImages /\ ~isOverlapping']_vars

\* checkLayerOverlap, called with no drag active, found the selected layer
\* over another one and raised the flag
C31_Witness ==
  /\ lastOp = "checkLayerOverlap"
  /\ fired.cb = "enter"
  /\ isOverlapping
  /\ ~dragState.isDragging

\* C32: in every reachable state of the canvas store, under any sequence of
\* updateTransform, startPanning, updatePanning, stopPanning and handleWheel,
\* 0.1 <= transform.scale <= 10, so the zoom never divides by a zero scale.
C32_ScaleInRange ==
  /\ ~FracLess(transform.scale, MinScale)
  /\ ~FracLess(MaxScale, transform.scale)

\* updateTransform stored a scale of zero
C32_Witness ==
  /\ lastOp = "updateTransform"
  /\ transform.scale = FromInt(0)

\* a move of a drag gesture of SkiaCanvas was just handled
C33_DragMoved ==
  /\ mounted = "SkiaCanvas"
  /\ lastOp = "handleMouseMove"
  /\ dragRef.isDragging
  /\ ~isPanning

\* C33: on every move of a drag gesture in SkiaCanvas, whatever was selected
\* at pointer-down, the overlap engine runs (handleDrag does not return
\* early) and the layer it uses as the dragged layer and hands to the
\* overlap callbacks is the layer hit at pointer-down, dragState.imageId.
C33_DraggedLayerIsHitLayer ==
  C33_DragMoved =>
    /\ selectedImage # Null
    /\ dragState.isDragging
    /\ selectedImage.id = dragRef.imageId
    /\ fired # NoCallback => fired.dragging = dragRef.imageId

\* the gesture moves the layer hit at pointer-down while the overlap engine
\* works on another layer, the one that was selected
C33_Witness ==
  /\ C33_DragMoved
  /\ selectedImage # Null
  /\ selectedImage.id # dragRef.imageId


\* the blend modes the layers with the given id have in images
C34_BlendModes(id) ==
  {images[i].blendMode : i \in {j \in 1..Len(images) : images[j].id = id}}

\* C34: with the overlap handlers SkiaCanvas registers, after the handleDrag
\* step that fires onEnterOverlap the dragged layer's blendMode in images is
\* Multiply, and after the step that fires onLeaveOverlap it is SrcOver.
C34_BlendFollowsOverlap ==
  (lastOp = "handleDrag" /\ handlers = "canvas") =>
    /\ fired.cb = "enter" => C34_BlendModes(fired.dragging) = {"Multiply"}
    /\ fired.cb = "leave" => C34_BlendModes(fired.dragging) = {"SrcOver"}

\* onEnterOverlap was fired by handleDrag and the dragged layer is still
\* drawn with SrcOver
C34_Witness ==
  /\ lastOp = "handleDrag"
  /\ handlers = "canvas"
  /\ fired.cb = "enter"
  /\ C34_BlendModes(fired.dragging) = {"SrcOver"}
  /\ selectedImage.blendMode = "SrcOver"

\* C35: the ids of the layers in images are pairwise distinct in every
\* reachable state, and updateImageContent (for any updates), handleDrag and
\* handleImageClick keep the id of every layer.
C35_IdsUniqueAndFixed ==
  [][/\ \A i \in 1..Len(images'), j \in 1..Len(images') :
          i # j => images'[i].id # images'[j].id
     /\ (\/ \E id \in Ids, updates \in IdUpdates : updateImageContent(id, updates)
         \/ \E p \in DragPoints, rect \in Rects : handleDrag(p[1], p[2], rect)
         \/ \E p \in Points, rect \in Rects : handleImageClick(p[1], p[2], rect))
        => /\ Len(images') = Len(images)
           /\ \A i \in 1..Len(images) : images'[i].id = images[i].id]_vars

\* updateImageContent gave a layer the id of another layer
C35_Witness ==
  /\ lastOp = "updateImageContent"
  /\ Len(images) = 2
  /\ images[1].id = images[2].id

\* C36: whenever selectedImage is non-null, all of its attributes equal
\* those of the layer with the same id in images, after any sequence of
\* store actions, handleDrag steps with overlap callbacks included.
C36_SelectionMirrorsLayer ==
  selectedImage # Null =>
    /\ \E i \in 1..Len(images) : images[i].id = selectedImage.id
    /\ \A i \in 1..Len(images) :
         images[i].id = selectedImage.id => images[i] = selectedImage

\* the earlier handleDrag moved the layer in images and left the selection
\* at the position it had before
C36_Witness ==
  /\ lastOp = "handleDrag"
  /\ selectedImage # Null
  /\ \E i \in 1..Len(images) :
       /\ images[i].id = selectedImage.id
       /\ images[i].x # selectedImage.x

\* C37: within one overlap episode every onDragInOverlap is fired with the
\* target of the onEnterOverlap that opened it: when a handleDrag step that
\* fired onEnterOverlap or onDragInOverlap is directly followed by one that
\* fires onDragInOverlap, the two report the same target.
C37_TargetFixedInEpisode ==
  [][(/\ lastOp = "handleDrag"
      /\ fired.cb \in {"enter", "dragIn"}
      /\ lastOp' = "handleDrag"
      /\ fired'.cb = "dragIn")
     => fired'.target = fired.target]_vars

\* the layers that are not the temporary layer of startDisplacement
C38_OtherLayers(imgs) == SelectSeq(imgs, LAMBDA img : img.name # "displacement-map-temp")

\* C38: cancelDisplacement and the store's applyDisplacement remove from
\* images only the temporary layer created by startDisplacement; every
\* other layer, one holding the displacement map's image handle included,
\* stays in images with its attributes and in its order.
C38_OnlyPreviewRemoved ==
  [][(\/ cancelDisplacement
      \/ \E surfaceOk \in BOOLEAN, throwAt \in 0..Len(Steps) :
           applyDisplacement(surfaceOk, throwAt))
     => /\ Len(images') >= Len(C38_OtherLayers(images))
        /\ SubSeq(images', 1, Len(C38_OtherLayers(images))) = C38_OtherLayers(images)]_vars

\* applyDisplacement completed and the only layer left is the derived one:
\* the source layer, which held the displacement map's handle, was removed
C38_Witness ==
  /\ lastOp = "applyDisplacement"
  /\ lastApply.outcome = "ok"
  /\ Len(images) = 1
  /\ images[1].name = "displaced"

\* C39: every Surface held in the canvas store's surfaces map is live in
\* every reachable state, under any sequence of createSurface,
\* resizeSurface, deleteSurface and cleanup, also when creating the
\* replacement surface fails; getActiveSurface never returns a deleted one.
C39_HeldSurfacesLive ==
  /\ \A s \in SurfaceIds : instances.surfaces[s] # "deleted"
  /\ returned.of = "getActiveSurface" => returned.value # "deleted"

\* getActiveSurface returned a surface that had been deleted
C39_Witness ==
  /\ lastOp = "getActiveSurface"
  /\ returned.value = "deleted"
  /\ instances.surfaces[instances.activeSurfaceId] = "deleted"

\* the calls of loadMockupById that have started and not settled
C40_InFlight(l) == {c \in MockupCalls : l[c].status = "fetching"}

\* C40: for any interleaving of concurrent loadMockupById calls, isLoading is
\* true while at least one call has started and not settled, and false once
\* every call has settled; a call that fails sets error and leaves
\* currentMockup as it was.
C40_LoadingTracksCalls ==
  [][/\ C40_InFlight(loads') # {} => mockup'.isLoading
     /\ C40_InFlight(loads') = {} => ~mockup'.isLoading
     /\ \A c \in MockupCalls :
          (loads'[c] # loads[c] /\ loads'[c].status = "failed")
            => /\ mockup'.error # "null"
               /\ mockup'.currentMockup = mockup.currentMockup]_vars

\* one call has settled and switched isLoading off while another is still
\* fetching
C40_Witness ==
  /\ C40_InFlight(loads) # {}
  /\ \E c \in MockupCalls : loads[c].status \in {"loaded", "failed"}
  /\ ~mockup.isLoading

====
